---- MODULE Spec2Model ----
(***************************************************************************)
(* A model of the PCB system viewer: the canvas camera (pan / zoom /        *)
(* coordinate conversion, canvas-manager.js) and the hierarchical viewer    *)
(* (visibility, layout boxes, dragging, connection routing).                *)
(*                                                                          *)
(* Numbers of the camera are JavaScript Numbers (IEEE-754 binary floating   *)
(* point, round to nearest, ties to even).  They are modelled as binary     *)
(* floating point of the same kind at a reduced width: a value is the       *)
(* integer k standing for k / 2^FracBits, and every representable k has at  *)
(* most MantBits significant bits.  Every arithmetic operation rounds its   *)
(* exact result to the nearest representable value, as the hardware does.   *)
(***************************************************************************)
EXTENDS Integers, Sequences, FiniteSets, TLC

VARIABLES
    camera,          \* CanvasManager.camera {x, y, zoom}
    isPanning,       \* CanvasManager.isPanning
    panStartPos,     \* CanvasManager.panStartPos {x, y}
    panStartCamera,  \* CanvasManager.panStartCamera {x, y}
    panStartZoom,    \* history: camera.zoom when the pan in progress started
    lastMousePos,    \* CanvasManager.lastMousePos {x, y}
    transformCache,  \* CanvasManager.transformCache (serialized transform)
    styleTransform,  \* canvasContent.style.transform (the render target)
    styleWrites,     \* history: number of assignments to style.transform so far
    camLast,         \* history: the camera operation handled last
    camOps,          \* history: number of camera events handled so far
    fileSystem,      \* PCBSystemViewer.fileSystem: the directory tree whose files it holds
    pendingLoads,    \* the loadFileSystem calls suspended at an await, in call order
    allModules,      \* PCBSystemViewer.allModules: the paths of the modules
    rootModules,     \* PCBSystemViewer.rootModules: sequence of root paths
    rootObjects,     \* the objects in rootModules: path, the load that built it, its tree
    connections,     \* PCBSystemViewer.connections: path -> declared connections
    expandedModules, \* PCBSystemViewer.expandedModules: set of paths
    modulePositions, \* PCBSystemViewer.modulePositions: path -> box
    dragState,       \* PCBSystemViewer.dragState
    elBox,           \* the module elements of the canvas: path -> style box
    elCount,         \* the connection count in the title of each module element
    lines,           \* the connection lines of the canvas, in render order
    last,            \* history: the viewer event handled last
    dragOrigin,      \* history: the stored box of the dragged module when the drag began
    containerBounds, \* where the canvas container is in the window (getBoundingClientRect)
    viewOps          \* history: number of viewer events handled so far

camVars == <<camera, isPanning, panStartPos, panStartCamera, panStartZoom, lastMousePos,
             transformCache, styleTransform, styleWrites, camLast, camOps>>

loadVars == <<fileSystem, pendingLoads>>

viewVars == <<loadVars, allModules, rootModules, rootObjects, connections, expandedModules,
              modulePositions, dragState, elBox, elCount, lines, last,
              dragOrigin, containerBounds, viewOps>>

vars == <<camVars, viewVars>>

(***************************************************************************)
(* Bounds of the model.                                                     *)
(***************************************************************************)
MantBits == 5
FracBits == 6
MaxCamOps == 3
MaxViewOps == 6
MaxLoads == 4

(***************************************************************************)
(* Floating point arithmetic.                                               *)
(***************************************************************************)
RECURSIVE Pow2(_)
Pow2(n) == IF n <= 0 THEN 1 ELSE 2 * Pow2(n - 1)

RECURSIVE BitLen(_)
BitLen(n) == IF n <= 0 THEN 0 ELSE 1 + BitLen(n \div 2)

Abs(n) == IF n < 0 THEN -n ELSE n

Max(a, b) == IF a >= b THEN a ELSE b

Min(a, b) == IF a <= b THEN a ELSE b

Q == Pow2(FracBits)

\* spacing of the representable values at magnitude |k|
Ulp(k) == Pow2(Max(0, BitLen(Abs(k)) - MantBits))

\* the rational n / d (d > 0) rounded to the nearest representable value,
\* ties to even
RoundRat(n, d) ==
    LET a    == Abs(n)
        unit == Ulp(a \div d)
        D    == d * unit
        m    == a \div D
        r    == a % D
        up   == (2 * r > D) \/ (2 * r = D /\ m % 2 = 1)
        k    == (IF up THEN m + 1 ELSE m) * unit
    IN  IF n < 0 THEN -k ELSE k

FromRat(n, d) == RoundRat(n * Q, d)

FAdd(a, b) == RoundRat(a + b, 1)

FSub(a, b) == RoundRat(a - b, 1)

FMul(a, b) == RoundRat(a * b, Q)

FDiv(a, b) == IF b < 0 THEN RoundRat(-(a * Q), -b) ELSE RoundRat(a * Q, b)

(***************************************************************************)
(* CanvasManager                                                            *)
(***************************************************************************)
minZoom == FromRat(1, 10)

maxZoom == FromRat(5, 1)

zoomFactor == FromRat(11, 10)

One == FromRat(1, 1)

\* mutant of screenToWorld: the camera offset is not subtracted
screenToWorldNoOffset(cam, screenX, screenY) ==
    [x |-> FDiv(screenX, cam.zoom), y |-> FDiv(screenY, cam.zoom)]

\* screenToWorld under camera cam
screenToWorld(cam, screenX, screenY) ==
    [x |-> FDiv(FSub(screenX, cam.x), cam.zoom),
     y |-> FDiv(FSub(screenY, cam.y), cam.zoom)]

\* worldToScreen under camera cam
worldToScreen(cam, worldX, worldY) ==
    [x |-> FAdd(FMul(worldX, cam.zoom), cam.x),
     y |-> FAdd(FMul(worldY, cam.zoom), cam.y)]

\* the transform string: number formatting is one-to-one on Numbers
Serialize(cam) == <<"translate3d", cam.x, cam.y, "scale", cam.zoom>>

\* mutant of ClampZoom: the lower bound is not applied
ClampZoomMaxOnly(z) == Min(maxZoom, z)

\* Math.max(minZoom, Math.min(maxZoom, z))
ClampZoom(z) == Max(minZoom, Min(maxZoom, z))

\* constrainCamera
constrainCamera(cam) == [cam EXCEPT !.zoom = ClampZoom(cam.zoom)]

\* mutant of updateTransform: the render target is written on every call
updateTransformAlways(cam) ==
    /\ transformCache' = Serialize(cam)
    /\ styleTransform' = Serialize(cam)
    /\ styleWrites' = styleWrites + 1

\* updateTransform: writes the render target only when the string changed
updateTransform(cam) ==
    LET transform == Serialize(cam)
    IN  IF transformCache # transform
        THEN /\ transformCache' = transform
             /\ styleTransform' = transform
             /\ styleWrites' = styleWrites + 1
        ELSE UNCHANGED <<transformCache, styleTransform, styleWrites>>

Wrote(cam) == transformCache # Serialize(cam)

NoCamLast == [op |-> "init", accepted |-> FALSE, mouse |-> [x |-> 0, y |-> 0],
              world |-> [x |-> 0, y |-> 0], pre |-> [x |-> 0, y |-> 0, zoom |-> One],
              tentative |-> One, wrote |-> FALSE,
              viewport |-> [width |-> 0, height |-> 0]]


(***************************************************************************)
(* Inputs of the camera events.                                             *)
(***************************************************************************)
Pt(a, b) == [x |-> FromRat(a, 1), y |-> FromRat(b, 1)]

\* pointer positions (clientX, clientY)
ClientPoints == {Pt(7, 3), Pt(3, 0)}

\* container.getBoundingClientRect()
ContainerRects ==
    {[left |-> FromRat(0, 1), top |-> FromRat(0, 1),
      width |-> FromRat(8, 1), height |-> FromRat(12, 1)],
     [left |-> FromRat(1, 1), top |-> FromRat(2, 1),
      width |-> FromRat(10, 1), height |-> FromRat(6, 1)]}

\* arguments of setCameraState(x, y, zoom)
CameraStates ==
    {[x |-> FromRat(0, 1),  y |-> FromRat(0, 1), zoom |-> FromRat(5, 1)],
     [x |-> FromRat(2, 1),  y |-> FromRat(-3, 1), zoom |-> FromRat(1, 10)],
     [x |-> FromRat(-4, 1), y |-> FromRat(1, 1), zoom |-> FromRat(10, 1)],
     [x |-> FromRat(1, 2),  y |-> FromRat(5, 1), zoom |-> FromRat(0, 1)]}

Buttons == {1, 2}

Count == camOps < MaxCamOps /\ camOps' = camOps + 1 /\ UNCHANGED viewVars

(***************************************************************************)
(* Pan                                                                      *)
(***************************************************************************)
\* startPan
startPan(e) ==
    /\ isPanning' = TRUE
    /\ panStartPos' = [x |-> e.x, y |-> e.y]
    /\ panStartCamera' = [x |-> camera.x, y |-> camera.y]
    /\ panStartZoom' = camera.zoom
    /\ lastMousePos' = [x |-> e.x, y |-> e.y]
    /\ UNCHANGED <<camera, transformCache, styleTransform, styleWrites>>

\* handleMouseDown: the middle button starts a pan
handleMouseDown(button, e) ==
    /\ Count
    /\ IF button = 1
       THEN startPan(e)
       ELSE UNCHANGED <<camera, isPanning, panStartPos, panStartCamera, panStartZoom,
                        lastMousePos, transformCache, styleTransform, styleWrites>>
    /\ camLast' = [NoCamLast EXCEPT !.op = "mousedown", !.mouse = e,
                                    !.pre = camera, !.accepted = (button = 1)]

\* mutant of updatePan: the delta is added to the current camera offset
updatePanFromCurrent(e) ==
    LET deltaX == FSub(e.x, panStartPos.x)
        deltaY == FSub(e.y, panStartPos.y)
        cam    == [camera EXCEPT !.x = FAdd(camera.x, deltaX),
                                 !.y = FAdd(camera.y, deltaY)]
    IN  /\ camera' = cam
        /\ updateTransform(cam)
        /\ lastMousePos' = [x |-> e.x, y |-> e.y]
        /\ UNCHANGED <<isPanning, panStartPos, panStartCamera, panStartZoom>>

\* updatePan
updatePan(e) ==
    LET deltaX == FSub(e.x, panStartPos.x)
        deltaY == FSub(e.y, panStartPos.y)
        cam    == [camera EXCEPT !.x = FAdd(panStartCamera.x, deltaX),
                                 !.y = FAdd(panStartCamera.y, deltaY)]
    IN  /\ camera' = cam
        /\ updateTransform(cam)
        /\ lastMousePos' = [x |-> e.x, y |-> e.y]
        /\ UNCHANGED <<isPanning, panStartPos, panStartCamera, panStartZoom>>

\* handleMouseMove
handleMouseMove(e) ==
    /\ Count
    /\ IF isPanning
       THEN updatePan(e)
       ELSE UNCHANGED <<camera, isPanning, panStartPos, panStartCamera, panStartZoom,
                        lastMousePos, transformCache, styleTransform, styleWrites>>
    /\ camLast' = [NoCamLast EXCEPT !.op = "mousemove", !.mouse = e,
                                    !.pre = camera, !.accepted = isPanning,
                                    !.wrote = isPanning /\ Wrote(camera')]

\* endPan
endPan ==
    LET cam == constrainCamera(camera)
    IN  /\ isPanning' = FALSE
        /\ camera' = cam
        /\ updateTransform(cam)
        /\ UNCHANGED <<panStartPos, panStartCamera, panStartZoom, lastMousePos>>

\* handleMouseUp (button 1 while panning) and handleMouseLeave (while panning)
handleMouseUp(button) ==
    /\ Count
    /\ IF button = 1 /\ isPanning
       THEN endPan
       ELSE UNCHANGED <<camera, isPanning, panStartPos, panStartCamera, panStartZoom,
                        lastMousePos, transformCache, styleTransform, styleWrites>>
    /\ camLast' = [NoCamLast EXCEPT !.op = "mouseup", !.pre = camera,
                                    !.accepted = (button = 1 /\ isPanning),
                                    !.wrote = (button = 1 /\ isPanning) /\ Wrote(camera')]

handleMouseLeave ==
    /\ Count
    /\ IF isPanning
       THEN endPan
       ELSE UNCHANGED <<camera, isPanning, panStartPos, panStartCamera, panStartZoom,
                        lastMousePos, transformCache, styleTransform, styleWrites>>
    /\ camLast' = [NoCamLast EXCEPT !.op = "mouseleave", !.pre = camera,
                                    !.accepted = isPanning,
                                    !.wrote = isPanning /\ Wrote(camera')]

(***************************************************************************)
(* Zoom                                                                     *)
(***************************************************************************)
\* mutant of ZoomedCamera: the offset is not adjusted after the zoom
ZoomedCameraNoPanAdjust(cam, newZoom, mouseX, mouseY) == [cam EXCEPT !.zoom = newZoom]

\* the camera after an accepted zoom to newZoom at (mouseX, mouseY)
ZoomedCamera(cam, newZoom, mouseX, mouseY) ==
    LET worldPos     == screenToWorld(cam, mouseX, mouseY)
        zoomed       == [cam EXCEPT !.zoom = newZoom]
        newScreenPos == worldToScreen(zoomed, worldPos.x, worldPos.y)
    IN  [zoomed EXCEPT !.x = FAdd(cam.x, FSub(mouseX, newScreenPos.x)),
                       !.y = FAdd(cam.y, FSub(mouseY, newScreenPos.y))]

\* mutant of ZoomAccepted: the bounds test is missing
ZoomAcceptedAlways(newZoom) == TRUE

\* does handleZoom go on with the tentative zoom
ZoomAccepted(newZoom) == ClampZoom(newZoom) = newZoom

\* handleWheel / handleZoom; deltaYPositive is wheelEvent.deltaY > 0
handleZoom(deltaYPositive, e, containerRect) ==
    LET zoomDelta == IF deltaYPositive THEN FDiv(One, zoomFactor) ELSE zoomFactor
        mouseX    == FSub(e.x, containerRect.left)
        mouseY    == FSub(e.y, containerRect.top)
        worldPos  == screenToWorld(camera, mouseX, mouseY)
        newZoom   == FMul(camera.zoom, zoomDelta)
    IN  /\ Count
        /\ IF ZoomAccepted(newZoom)
           THEN /\ camera' = ZoomedCamera(camera, newZoom, mouseX, mouseY)
                /\ updateTransform(camera')
           ELSE UNCHANGED <<camera, transformCache, styleTransform, styleWrites>>
        /\ UNCHANGED <<isPanning, panStartPos, panStartCamera, panStartZoom, lastMousePos>>
        /\ camLast' = [op |-> "zoom", accepted |-> ZoomAccepted(newZoom),
                       mouse |-> [x |-> mouseX, y |-> mouseY],
                       world |-> worldPos, pre |-> camera, tentative |-> newZoom,
                       wrote |-> ZoomAccepted(newZoom) /\ Wrote(camera'),
                       viewport |-> NoCamLast.viewport]

(***************************************************************************)
(* setCameraState / resetView                                               *)
(***************************************************************************)
SetCamera(x, y, zoom) ==
    LET cam == constrainCamera([x |-> x, y |-> y, zoom |-> zoom])
    IN  /\ camera' = cam
        /\ updateTransform(cam)
        /\ UNCHANGED <<isPanning, panStartPos, panStartCamera, panStartZoom, lastMousePos>>

setCameraState(c) ==
    /\ Count
    /\ SetCamera(c.x, c.y, c.zoom)
    /\ camLast' = [NoCamLast EXCEPT !.op = "set", !.pre = camera, !.accepted = TRUE,
                                    !.wrote = Wrote(camera')]

\* mutant of resetView: the zoom is kept
resetViewKeepZoom(containerRect) ==
    /\ Count
    /\ SetCamera(FDiv(containerRect.width, FromRat(4, 1)),
                 FDiv(containerRect.height, FromRat(4, 1)), camera.zoom)
    /\ camLast' = [NoCamLast EXCEPT !.op = "reset", !.pre = camera, !.accepted = TRUE,
                                    !.wrote = Wrote(camera'),
                                    !.viewport = [width  |-> containerRect.width,
                                                  height |-> containerRect.height]]

\* resetView (also the R key, handleKeyDown)
resetView(containerRect) ==
    /\ Count
    /\ SetCamera(FDiv(containerRect.width, FromRat(4, 1)),
                 FDiv(containerRect.height, FromRat(4, 1)), One)
    /\ camLast' = [NoCamLast EXCEPT !.op = "reset", !.pre = camera, !.accepted = TRUE,
                                    !.wrote = Wrote(camera'),
                                    !.viewport = [width  |-> containerRect.width,
                                                  height |-> containerRect.height]]

(***************************************************************************)
(* PCBSystemViewer: the module tree.                                        *)
(*                                                                          *)
(* A path is the sequence of its '/'-separated components; a module object  *)
(* is identified by its path (buildModuleTreeFromDirectories creates one    *)
(* object per directory path).  World coordinates of the layout are whole   *)
(* pixels, on which IEEE arithmetic is exact, so boxes are integers.        *)
(***************************************************************************)
\* String.prototype.localeCompare on the names used here
NameOrder == <<"A", "B", "C", "D", "E", "F">>

NameRank(n) == CHOOSE i \in 1 .. Len(NameOrder) : NameOrder[i] = n

\* module.name: the last component of the path
Name(p) == p[Len(p)]

\* module.parentPath: pathParts.slice(0, -1).join('/')
ParentPath(p) == SubSeq(p, 1, Len(p) - 1)

\* module.level
Level(p) == Len(p) - 1

\* Array.prototype.sort((a, b) => a.name.localeCompare(b.name))
RECURSIVE SortByName(_)
SortByName(S) ==
    IF S = {} THEN <<>>
    ELSE LET m == CHOOSE m \in S : \A o \in S : NameRank(Name(m)) <= NameRank(Name(o))
         IN  <<m>> \o SortByName(S \ {m})

\* module.children, as built and sorted by buildModuleTreeFromDirectories
Children(p) == SortByName({c \in allModules : Len(c) = Len(p) + 1 /\ ParentPath(c) = p})

\* module.children of a module object built from tree t
ChildrenIn(t, p) ==
    SortByName({c \in t.modules : Len(c) = Len(p) + 1 /\ ParentPath(c) = p})

\* the root modules, as built and sorted by buildModuleTreeFromDirectories
Roots(mods) == SortByName({m \in mods : Level(m) = 0})

RECURSIVE Descendants(_)
Descendants(p) ==
    LET cs == {c \in allModules : Len(c) = Len(p) + 1 /\ ParentPath(c) = p}
    IN  cs \cup UNION {Descendants(c) : c \in cs}

Ancestors(p) == {SubSeq(p, 1, n) : n \in 1 .. Len(p) - 1}

InSeq(s, e) == \E i \in 1 .. Len(s) : s[i] = e

\* Array.prototype.indexOf, 1-based; 0 when absent
IndexOf(s, e) == IF InSeq(s, e) THEN CHOOSE i \in 1 .. Len(s) : s[i] = e /\ \A j \in 1 .. i - 1 : s[j] # e
                 ELSE 0

Range(s) == {s[i] : i \in 1 .. Len(s)}

\* Map.prototype.set
Put(f, k, v) == [q \in DOMAIN f \cup {k} |-> IF q = k THEN v ELSE f[q]]

(***************************************************************************)
(* Visibility                                                               *)
(***************************************************************************)
RECURSIVE addExpandedChildren(_, _), VisibleOf(_, _)

\* mutant of addExpandedChildren: children are listed whether or not the
\* module is expanded
addExpandedChildrenAlways(module, exp) == VisibleOf(Children(module), exp)

\* addExpandedChildren: what the call appends to the visible list
addExpandedChildren(module, exp) ==
    IF module \in exp THEN VisibleOf(Children(module), exp) ELSE <<>>

\* the forEach loops of getVisibleModules and addExpandedChildren
VisibleOf(mods, exp) ==
    IF mods = <<>> THEN <<>>
    ELSE <<Head(mods)>> \o addExpandedChildren(Head(mods), exp) \o VisibleOf(Tail(mods), exp)

\* getVisibleModules
getVisibleModules(exp) == VisibleOf(rootModules, exp)

\* isChildOfExpandedParent
isChildOfExpandedParent(module, exp) == Level(module) > 0 /\ ParentPath(module) \in exp

(***************************************************************************)
(* Layout                                                                   *)
(***************************************************************************)
baseWidth == 250
baseHeight == 120
spacing == 50
gridOrigin == 50
minExpandedWidth == 300
minExpandedHeight == 200
expandedExtraWidth == 80
expandedExtraHeight == 120
padding == 40
titleHeight == 60
childSpacing == 20
childWidth == 140
childHeight == 80
defaultWidth == 250
defaultHeight == 120

\* Math.ceil(Math.sqrt(n))
CeilSqrt(n) == CHOOSE c \in 0 .. n : c * c >= n /\ (c = 0 \/ (c - 1) * (c - 1) < n)

\* Math.ceil(a / b)
CeilDiv(a, b) == (a + b - 1) \div b

Box(x, y, w, h) == [x |-> x, y |-> y, width |-> w, height |-> h]

\* calculateExpandedSize
calculateExpandedSize(n) ==
    LET childCols == CeilSqrt(n)
        childRows == CeilDiv(n, childCols)
    IN  [width  |-> childWidth * childCols + childSpacing * (childCols - 1),
         height |-> childHeight * childRows + childSpacing * (childRows - 1)]

\* mutant of ParentIndex: the parent is never found in the list
ParentIndexMissing(childModule, modules) == 0

\* allModules.indexOf(parent) of calculateChildPosition, 1-based; 0 for -1
ParentIndex(childModule, modules) == IndexOf(modules, ParentPath(childModule))

\* mutant of calculateChildPosition: the children fill a single row
calculateChildPositionOneRow(childModule, modules, existingPositions) ==
    LET parent      == ParentPath(childModule)
        parentIndex == ParentIndex(childModule, modules)
    IN  IF parentIndex = 0
        THEN Box(50, 50, childWidth, childHeight)
        ELSE LET parentPosition == existingPositions[parentIndex]
                 siblings   == SelectSeq(Children(parent), LAMBDA c : InSeq(modules, c))
                 childIndex == IndexOf(siblings, childModule) - 1
             IN  Box(parentPosition.x + padding + childIndex * (childWidth + childSpacing),
                     parentPosition.y + titleHeight + padding,
                     childWidth, childHeight)

\* calculateChildPosition
calculateChildPosition(childModule, modules, existingPositions) ==
    LET parent      == ParentPath(childModule)
        parentIndex == ParentIndex(childModule, modules)
    IN  IF parentIndex = 0
        THEN Box(50, 50, childWidth, childHeight)
        ELSE LET parentPosition == existingPositions[parentIndex]
                 siblings   == SelectSeq(Children(parent), LAMBDA c : InSeq(modules, c))
                 childIndex == IndexOf(siblings, childModule) - 1
                 childCols  == CeilSqrt(Len(siblings))
                 col        == childIndex % childCols
                 row        == childIndex \div childCols
             IN  Box(parentPosition.x + padding + col * (childWidth + childSpacing),
                     parentPosition.y + titleHeight + padding
                         + row * (childHeight + childSpacing),
                     childWidth, childHeight)

\* calculateInitialPosition
calculateInitialPosition(module, modules, existingPositions, exp) ==
    IF isChildOfExpandedParent(module, exp)
    THEN calculateChildPosition(module, modules, existingPositions)
    ELSE LET roots       == SelectSeq(modules, LAMBDA m : ~isChildOfExpandedParent(m, exp))
             moduleIndex == IndexOf(roots, module) - 1
             cols        == CeilSqrt(Len(roots))
             col         == moduleIndex % cols
             row         == moduleIndex \div cols
             visibleChildren == SelectSeq(Children(module), LAMBDA c : InSeq(modules, c))
             grown       == module \in exp /\ Len(visibleChildren) > 0
             childLayout == calculateExpandedSize(Len(visibleChildren))
         IN  Box(col * (baseWidth + spacing) + gridOrigin,
                 row * (baseHeight + spacing) + gridOrigin,
                 IF grown THEN Max(minExpandedWidth, childLayout.width + expandedExtraWidth)
                          ELSE baseWidth,
                 IF grown THEN Max(minExpandedHeight,
                                   childLayout.height + expandedExtraHeight)
                          ELSE baseHeight)

\* a stored position as calculateModulePositions returns it (width || 250)
StoredPosition(b) ==
    Box(b.x, b.y, IF b.width = 0 THEN baseWidth ELSE b.width,
        IF b.height = 0 THEN baseHeight ELSE b.height)

\* calculateModulePositions: the positions of the modules, in order, and the
\* position map after the loop
RECURSIVE calculateModulePositions(_, _, _, _, _)

\* mutant of calculateModulePositions: a stored position is not looked up,
\* every module is placed afresh
calculateModulePositionsAfresh(modules, i, positions, store, exp) ==
    IF i > Len(modules) THEN [positions |-> positions, store |-> store]
    ELSE LET m == modules[i]
             position == calculateInitialPosition(m, modules, positions, exp)
         IN  calculateModulePositions(modules, i + 1,
                 Append(positions, position), Put(store, m, position), exp)

calculateModulePositions(modules, i, positions, store, exp) ==
    IF i > Len(modules) THEN [positions |-> positions, store |-> store]
    ELSE LET m == modules[i]
         IN  IF m \in DOMAIN store
             THEN calculateModulePositions(modules, i + 1,
                      Append(positions, StoredPosition(store[m])), store, exp)
             ELSE LET position == calculateInitialPosition(m, modules, positions, exp)
                  IN  calculateModulePositions(modules, i + 1,
                          Append(positions, position), Put(store, m, position), exp)

\* renderAllVisibleModules: the position map and the module elements after it.
\* v is the pair [store, el] of the position map and the module elements.
renderAllVisibleModules(exp, v) ==
    LET visibleModules == getVisibleModules(exp)
        r == calculateModulePositions(visibleModules, 1, <<>>, v.store, exp)
    IN  [store |-> r.store,
         el    |-> [m \in Range(visibleModules) |->
                       r.positions[IndexOf(visibleModules, m)]]]

(***************************************************************************)
(* The cascade: container bounds                                            *)
(***************************************************************************)
SetMin(S) == CHOOSE a \in S : \A b \in S : a <= b

SetMax(S) == CHOOSE a \in S : \A b \in S : a >= b

\* mutant of recalculateParentBounds: a module without visible children is
\* left as it is
recalculateParentBoundsKeepSize(parentModule, exp, v) ==
    LET visibleModules == getVisibleModules(exp)
        children == {c \in Range(Children(parentModule)) : InSeq(visibleModules, c)}
        placed   == {c \in children : c \in DOMAIN v.store}
    IN  IF parentModule \notin DOMAIN v.el \/ placed = {} THEN v
        ELSE LET minX == SetMin({v.store[c].x : c \in placed})
                 minY == SetMin({v.store[c].y : c \in placed})
                 maxX == SetMax({v.store[c].x + v.store[c].width : c \in placed})
                 maxY == SetMax({v.store[c].y + v.store[c].height : c \in placed})
                 new  == Box(minX - padding, minY - titleHeight - padding,
                             maxX - minX + padding * 2,
                             maxY - minY + titleHeight + padding * 2)
             IN  [store |-> Put(v.store, parentModule, new),
                  el    |-> [v.el EXCEPT ![parentModule] = new]]

\* recalculateParentBounds
recalculateParentBounds(parentModule, exp, v) ==
    LET visibleModules == getVisibleModules(exp)
        children == {c \in Range(Children(parentModule)) : InSeq(visibleModules, c)}
        placed   == {c \in children : c \in DOMAIN v.store}
    IN  IF parentModule \notin DOMAIN v.el THEN v
        ELSE IF children = {}
        THEN LET known    == parentModule \in DOMAIN v.store
                 currentX == IF known THEN v.store[parentModule].x ELSE 50
                 currentY == IF known THEN v.store[parentModule].y ELSE 50
             IN  [store |-> Put(v.store, parentModule,
                                Box(currentX, currentY, defaultWidth, defaultHeight)),
                  el    |-> [v.el EXCEPT ![parentModule].width = defaultWidth,
                                         ![parentModule].height = defaultHeight]]
        ELSE IF placed = {} THEN v
        ELSE LET minX == SetMin({v.store[c].x : c \in placed})
                 minY == SetMin({v.store[c].y : c \in placed})
                 maxX == SetMax({v.store[c].x + v.store[c].width : c \in placed})
                 maxY == SetMax({v.store[c].y + v.store[c].height : c \in placed})
                 new  == Box(minX - padding, minY - titleHeight - padding,
                             maxX - minX + padding * 2,
                             maxY - minY + titleHeight + padding * 2)
             IN  [store |-> Put(v.store, parentModule, new),
                  el    |-> [v.el EXCEPT ![parentModule] = new]]

RECURSIVE updateParentContainer(_, _, _)

\* mutant of updateParentContainer: only the direct parent is recomputed
updateParentContainerOnce(currentModule, exp, v) ==
    IF Level(currentModule) = 0 THEN v
    ELSE LET parent == ParentPath(currentModule)
         IN  IF parent \in allModules /\ parent \in exp
             THEN recalculateParentBounds(parent, exp, v)
             ELSE v

\* updateParentContainer: walks up while the parent is expanded
updateParentContainer(currentModule, exp, v) ==
    IF Level(currentModule) = 0 THEN v
    ELSE LET parent == ParentPath(currentModule)
         IN  IF parent \in allModules /\ parent \in exp
             THEN updateParentContainer(parent, exp, recalculateParentBounds(parent, exp, v))
             ELSE v

(***************************************************************************)
(* Moving a module                                                          *)
(***************************************************************************)
RECURSIVE moveChildren(_, _, _, _)

\* mutant of moveChildren: only the direct children are moved
moveChildrenDirectOnly(module, visibleModules, exp, store) ==
    {c \in Range(Children(module)) : InSeq(visibleModules, c) /\ c \in DOMAIN store}

\* moveAllDescendants / moveChildren: the modules the recursion moves
moveChildren(module, visibleModules, exp, store) ==
    LET moved == {c \in Range(Children(module)) :
                      InSeq(visibleModules, c) /\ c \in DOMAIN store}
    IN  moved \cup UNION {moveChildren(c, visibleModules, exp, store) :
                             c \in {d \in moved : d \in exp}}

Shift(b, deltaX, deltaY) == [b EXCEPT !.x = b.x + deltaX, !.y = b.y + deltaY]

\* moveAllDescendants
moveAllDescendants(parentModule, deltaX, deltaY, exp, v) ==
    LET moved == moveChildren(parentModule, getVisibleModules(exp), exp, v.store)
    IN  [store |-> [q \in DOMAIN v.store |->
                       IF q \in moved THEN Shift(v.store[q], deltaX, deltaY)
                       ELSE v.store[q]],
         el    |-> [q \in DOMAIN v.el |->
                       IF q \in moved
                       THEN [v.el[q] EXCEPT !.x = v.store[q].x + deltaX,
                                            !.y = v.store[q].y + deltaY]
                       ELSE v.el[q]]]

\* updateModulePosition
updateModulePosition(module, worldPos, exp, v) ==
    LET known  == module \in DOMAIN v.store
        deltaX == IF known THEN worldPos.x - v.store[module].x ELSE 0
        deltaY == IF known THEN worldPos.y - v.store[module].y ELSE 0
        hasEl  == module \in DOMAIN v.el
        width  == IF hasEl THEN v.el[module].width ELSE defaultWidth
        height == IF hasEl THEN v.el[module].height ELSE defaultHeight
        v1 == [store |-> Put(v.store, module, Box(worldPos.x, worldPos.y, width, height)),
               el    |-> IF hasEl
                         THEN [v.el EXCEPT ![module].x = worldPos.x,
                                           ![module].y = worldPos.y]
                         ELSE v.el]
    IN  IF module \in exp /\ (deltaX # 0 \/ deltaY # 0)
        THEN moveAllDescendants(module, deltaX, deltaY, exp, v1)
        ELSE v1

(***************************************************************************)
(* Connections                                                              *)
(***************************************************************************)
\* mutant of HasConnections: no module is taken to declare connections
HasConnectionsNever(module) == FALSE

\* module.connections && module.connections.connections
HasConnections(module) == module \in DOMAIN connections

\* getConnectionCount for a module object built from tree t: the number of
\* its own connections when it declares any, else the sum over its children
RECURSIVE getConnectionCountOf(_, _)
getConnectionCountOf(t, p) ==
    LET kids == ChildrenIn(t, p)
        RECURSIVE Each(_)
        Each(i) == IF i > Len(kids) THEN 0
                   ELSE getConnectionCountOf(t, kids[i]) + Each(i + 1)
    IN  IF p \in DOMAIN t.connections THEN Len(t.connections[p]) ELSE Each(1)

\* getConnectionCount for a module of the loaded tree
getConnectionCount(module) ==
    getConnectionCountOf([modules |-> allModules, connections |-> connections], module)

RECURSIVE Concat(_)

\* mutant of Concat: the hidden children contribute nothing
ConcatNothing(ss) == <<>>

\* connections.push(...) of each gathered list, in order
Concat(ss) == IF ss = <<>> THEN <<>> ELSE Head(ss) \o Concat(Tail(ss))

RECURSIVE getConnectionsForModule(_, _)

\* mutant of getConnectionsForModule: a module's own connections are used
\* whether or not it has visible children
getConnectionsWithVisibleChildren(module, visibleModules) ==
    LET kids   == Children(module)
        own    == IF HasConnections(module) THEN connections[module] ELSE <<>>
        hidden == SelectSeq(kids, LAMBDA c : ~InSeq(visibleModules, c))
    IN  own \o Concat([i \in 1 .. Len(hidden) |->
                          getConnectionsForModule(hidden[i], visibleModules)])

\* getConnectionsForModule
getConnectionsForModule(module, visibleModules) ==
    LET kids == Children(module)
        hasVisibleChildren == \E i \in 1 .. Len(kids) : InSeq(visibleModules, kids[i])
        own  == IF HasConnections(module) /\ ~hasVisibleChildren
                THEN connections[module] ELSE <<>>
        hidden == SelectSeq(kids, LAMBDA c : ~InSeq(visibleModules, c))
    IN  own \o Concat([i \in 1 .. Len(hidden) |->
                          getConnectionsForModule(hidden[i], visibleModules)])

NoModule == <<>>

\* targetPath.startsWith('../') || targetPath.startsWith('./')
IsRelative(targetPath) ==
    Len(targetPath) >= 2 /\ targetPath[1] \in {"..", "."}

\* mutant of FindByName: without a match the first visible module is returned
FindByNameOrFirst(targetName, visibleModules) ==
    IF \E i \in 1 .. Len(visibleModules) : Name(visibleModules[i]) = targetName
    THEN visibleModules[CHOOSE i \in 1 .. Len(visibleModules) :
                            /\ Name(visibleModules[i]) = targetName
                            /\ \A j \in 1 .. i - 1 : Name(visibleModules[j]) # targetName]
    ELSE visibleModules[1]

\* the first visible module whose name is targetName, or NoModule
FindByName(targetName, visibleModules) ==
    IF \E i \in 1 .. Len(visibleModules) : Name(visibleModules[i]) = targetName
    THEN visibleModules[CHOOSE i \in 1 .. Len(visibleModules) :
                            /\ Name(visibleModules[i]) = targetName
                            /\ \A j \in 1 .. i - 1 : Name(visibleModules[j]) # targetName]
    ELSE NoModule

\* mutant of findTargetModule: every reference is matched by name
findTargetModuleByName(targetPath, visibleModules) ==
    FindByName(targetPath[Len(targetPath)], visibleModules)

\* findTargetModule; a target path is the sequence of its '/'-separated parts
findTargetModule(targetPath, visibleModules) ==
    IF IsRelative(targetPath)
    THEN FindByName(targetPath[Len(targetPath)], visibleModules)
    ELSE IF targetPath \in allModules /\ InSeq(visibleModules, targetPath)
    THEN targetPath
    ELSE FindByName(targetPath[Len(targetPath)], visibleModules)

\* mutant of PairKey: the key names the source only
PairKeySourceOnly(from, to) == from \o <<"->">>

\* the key `${module.path}->${target.path}` of the pairs map
PairKey(from, to) == from \o <<"->">> \o to

\* pairs.set / pairs.get(key).connections.push(conn)
AddToPairs(pairs, from, to, conn) ==
    LET key == PairKey(from, to)
    IN  IF \E i \in 1 .. Len(pairs) : pairs[i].key = key
        THEN [i \in 1 .. Len(pairs) |->
                 IF pairs[i].key = key
                 THEN [pairs[i] EXCEPT !.connections = Append(@, conn)]
                 ELSE pairs[i]]
        ELSE Append(pairs, [key |-> key, from |-> from, to |-> to,
                            connections |-> <<conn>>])

\* the inner loop of calculateConnectionPairs over the connections of a module
RECURSIVE AddConnections(_, _, _, _)
AddConnections(pairs, module, conns, visibleModules) ==
    IF conns = <<>> THEN pairs
    ELSE LET conn   == Head(conns)
             target == findTargetModule(conn.target, visibleModules)
         IN  AddConnections(IF target # NoModule
                            THEN AddToPairs(pairs, module, target, conn)
                            ELSE pairs,
                            module, Tail(conns), visibleModules)

\* the outer loop of calculateConnectionPairs over the visible modules
RECURSIVE PairsFrom(_, _, _)
PairsFrom(pairs, i, visibleModules) ==
    IF i > Len(visibleModules) THEN pairs
    ELSE PairsFrom(AddConnections(pairs, visibleModules[i],
                       getConnectionsForModule(visibleModules[i], visibleModules),
                       visibleModules),
                   i + 1, visibleModules)

\* calculateConnectionPairs
calculateConnectionPairs(visibleModules) == PairsFrom(<<>>, 1, visibleModules)

\* mutant of LineThickness: the thickness is not clamped
LineThicknessUnclamped(n) == n * 2

\* renderConnectionArrow: the height of the line element, in pixels, for a
\* group of n connections
LineThickness(n) == Min(8, Max(2, n * 2))

\* mutant of renderConnectionArrow: the line always leaves and enters through
\* the left and right sides
renderConnectionArrowHorizontal(fromRect, toRect) ==
    LET fromCenterY == 2 * fromRect.y + fromRect.height
        toCenterY   == 2 * toRect.y + toRect.height
        dx == (2 * toRect.x + toRect.width) - (2 * fromRect.x + fromRect.width)
    IN  IF dx > 0
        THEN [startX |-> 2 * (fromRect.x + fromRect.width), startY |-> fromCenterY,
              endX |-> 2 * toRect.x, endY |-> toCenterY]
        ELSE [startX |-> 2 * fromRect.x, startY |-> fromCenterY,
              endX |-> 2 * (toRect.x + toRect.width), endY |-> toCenterY]

\* renderConnectionArrow: the two anchor points of the line.  A rectangle is
\* {left, top, width, height} of the element; the coordinates of the result
\* are in half pixels (twice the pixel value), in which the centres of
\* whole-pixel boxes are whole.
renderConnectionArrow(fromRect, toRect) ==
    LET fromCenter == [x |-> 2 * fromRect.x + fromRect.width,
                       y |-> 2 * fromRect.y + fromRect.height]
        toCenter   == [x |-> 2 * toRect.x + toRect.width,
                       y |-> 2 * toRect.y + toRect.height]
        dx == toCenter.x - fromCenter.x
        dy == toCenter.y - fromCenter.y
        startX == IF Abs(dx) > Abs(dy)
                  THEN IF dx > 0 THEN 2 * (fromRect.x + fromRect.width) ELSE 2 * fromRect.x
                  ELSE fromCenter.x
        startY == IF Abs(dx) > Abs(dy)
                  THEN fromCenter.y
                  ELSE IF dy > 0 THEN 2 * (fromRect.y + fromRect.height) ELSE 2 * fromRect.y
        endX   == IF Abs(dx) > Abs(dy)
                  THEN IF dx > 0 THEN 2 * toRect.x ELSE 2 * (toRect.x + toRect.width)
                  ELSE toCenter.x
        endY   == IF Abs(dx) > Abs(dy)
                  THEN toCenter.y
                  ELSE IF dy > 0 THEN 2 * toRect.y ELSE 2 * (toRect.y + toRect.height)
    IN  [startX |-> startX, startY |-> startY, endX |-> endX, endY |-> endY]

\* mutant of renderConnections: the lines are routed from the element
\* rectangles as they were when the handler began
renderConnectionsBeforeLayout(exp, el) ==
    LET pairs == calculateConnectionPairs(getVisibleModules(exp))
        drawn == SelectSeq(pairs, LAMBDA p : p.from \in DOMAIN elBox /\ p.to \in DOMAIN elBox)
    IN  [i \in 1 .. Len(drawn) |->
            [from |-> drawn[i].from, to |-> drawn[i].to,
             connections |-> drawn[i].connections,
             thickness |-> LineThickness(Len(drawn[i].connections)),
             fromRect |-> elBox[drawn[i].from], toRect |-> elBox[drawn[i].to],
             anchors |-> renderConnectionArrow(elBox[drawn[i].from], elBox[drawn[i].to])]]

\* renderConnections: one line per pair whose two elements exist, with the
\* element rectangles renderConnectionArrow reads
renderConnections(exp, el) ==
    LET pairs == calculateConnectionPairs(getVisibleModules(exp))
        drawn == SelectSeq(pairs, LAMBDA p : p.from \in DOMAIN el /\ p.to \in DOMAIN el)
    IN  [i \in 1 .. Len(drawn) |->
            [from |-> drawn[i].from, to |-> drawn[i].to,
             connections |-> drawn[i].connections,
             thickness |-> LineThickness(Len(drawn[i].connections)),
             fromRect |-> el[drawn[i].from], toRect |-> el[drawn[i].to],
             anchors |-> renderConnectionArrow(el[drawn[i].from], el[drawn[i].to])]]

\* renderSystem: the canvas is cleared and every visible module rendered
renderSystem(exp, v) ==
    IF rootModules = <<>> THEN [store |-> v.store, el |-> <<>>]
    ELSE renderAllVisibleModules(exp, v)

(***************************************************************************)
(* Expansion                                                                *)
(***************************************************************************)
\* mutant of collapseModule: the children are not collapsed
collapseModuleShallow(module, exp) == exp \ {module}

\* collapseModule: the module and, recursively, its children leave the set
RECURSIVE collapseModule(_, _)
collapseModule(module, exp) ==
    LET kids == Children(module)
        RECURSIVE Each(_, _)
        Each(i, e) == IF i > Len(kids) THEN e ELSE Each(i + 1, collapseModule(kids[i], e))
    IN  Each(1, exp \ {module})

View == [store |-> modulePositions, el |-> elBox]

\* every viewer event is counted, up to MaxViewOps
CountView == viewOps < MaxViewOps /\ viewOps' = viewOps + 1

\* toggleModuleExpansion (handleModuleMouseDown, left button)
toggleModuleExpansion(module) ==
    /\ module \in DOMAIN elBox
    /\ CountView
    /\ IF Children(module) = <<>>
       THEN /\ UNCHANGED <<expandedModules, modulePositions, elBox, elCount, lines>>
            /\ last' = [op |-> "select", module |-> module]
       ELSE LET exp1 == IF module \in expandedModules
                        THEN collapseModule(module, expandedModules)
                        ELSE expandedModules \cup {module}
                v1 == renderSystem(exp1, View)
                v2 == recalculateParentBounds(module, exp1, v1)
                v3 == updateParentContainer(module, exp1, v2)
            IN  /\ expandedModules' = exp1
                /\ modulePositions' = v3.store
                /\ elBox' = v3.el
                /\ elCount' = [m \in DOMAIN v3.el |-> getConnectionCount(m)]
                /\ lines' = renderConnections(exp1, v3.el)
                /\ last' = [op |-> IF module \in expandedModules THEN "collapse"
                                   ELSE "expand",
                            module |-> module]
    /\ UNCHANGED <<loadVars, allModules, rootModules, rootObjects, connections, dragState, dragOrigin, containerBounds,
                   camVars>>

(***************************************************************************)
(* Dragging.  In the viewer specification the camera stays at zoom 1 with   *)
(* a whole-pixel offset, where screenToWorld is exact.                      *)
(***************************************************************************)
IdleDrag == [isDragging |-> FALSE, draggedModule |-> NoModule,
             startPos |-> [x |-> 0, y |-> 0], offset |-> [x |-> 0, y |-> 0],
             hasMoved |-> FALSE]

NoBox == Box(0, 0, 0, 0)

\* the camera offset in pixels
CameraPx == [x |-> camera.x \div Q, y |-> camera.y \div Q]

\* canvasManager.screenToWorld at zoom 1
ScreenToWorldPx(screenX, screenY) ==
    [x |-> screenX - CameraPx.x, y |-> screenY - CameraPx.y]

\* startModuleDrag (handleModuleMouseDown, right button); the press lands on
\* the module's element, at the offset press from its top-left corner
startModuleDrag(module, press, containerRect) ==
    LET rectLeft == containerRect.left + CameraPx.x + elBox[module].x
        rectTop  == containerRect.top + CameraPx.y + elBox[module].y
        e == [x |-> rectLeft + press.x, y |-> rectTop + press.y]
    IN  /\ module \in DOMAIN elBox
        /\ CountView
        /\ dragState' = [isDragging |-> TRUE, draggedModule |-> module,
                         startPos |-> [x |-> e.x, y |-> e.y],
                         offset |-> [x |-> e.x - rectLeft + containerRect.left,
                                     y |-> e.y - rectTop + containerRect.top],
                         hasMoved |-> FALSE]
        /\ dragOrigin' = IF module \in DOMAIN modulePositions
                         THEN modulePositions[module] ELSE NoBox
        /\ last' = [op |-> "dragStart", module |-> module]
        /\ UNCHANGED <<loadVars, allModules, rootModules, rootObjects, connections, elCount, expandedModules,
                       modulePositions, elBox, lines, containerBounds, camVars>>

\* updateModuleDrag (handleCanvasMouseMove while dragging)
updateModuleDrag(e, containerRect) ==
    LET module   == dragState.draggedModule
        canvasX  == e.x - containerRect.left
        canvasY  == e.y - containerRect.top
        worldPos == ScreenToWorldPx(canvasX - dragState.offset.x,
                                    canvasY - dragState.offset.y)
        v1 == updateModulePosition(module, worldPos, expandedModules, View)
        v2 == updateParentContainer(module, expandedModules, v1)
    IN  /\ dragState.isDragging
        /\ module # NoModule
        /\ CountView
        /\ modulePositions' = v2.store
        /\ elBox' = v2.el
        /\ lines' = renderConnections(expandedModules, v2.el)
        /\ last' = [op |-> "dragUpdate", module |-> module]
        /\ UNCHANGED <<loadVars, allModules, rootModules, rootObjects, connections, elCount, expandedModules,
                       dragState, dragOrigin, containerBounds, camVars>>

\* handleCanvasMouseMove: a pointer move over the canvas updates the drag in
\* progress and does nothing otherwise
handleCanvasMouseMove(e) ==
    IF dragState.isDragging
    THEN updateModuleDrag(e, containerBounds)
    ELSE /\ CountView
         /\ last' = [op |-> "mousemove", module |-> NoModule]
         /\ UNCHANGED <<loadVars, allModules, rootModules, rootObjects, connections, elCount,
                        expandedModules, modulePositions, elBox, lines, dragState,
                        dragOrigin, containerBounds, camVars>>

\* mutant of endModuleDrag: the dragged module stays recorded
endModuleDragKeepModule(el) ==
    /\ lines' = IF dragState.draggedModule # NoModule
                THEN renderConnections(expandedModules, el) ELSE lines
    /\ dragState' = [IdleDrag EXCEPT !.draggedModule = dragState.draggedModule]

\* endModuleDrag
endModuleDrag(el) ==
    /\ lines' = IF dragState.draggedModule # NoModule
                THEN renderConnections(expandedModules, el) ELSE lines
    /\ dragState' = IdleDrag

\* handleCanvasMouseUp: the right button ends a drag
handleCanvasMouseUp(button) ==
    /\ dragState.isDragging
    /\ CountView
    /\ IF button = 2
       THEN endModuleDrag(elBox)
       ELSE UNCHANGED <<lines, dragState>>
    /\ last' = [op |-> IF button = 2 THEN "dragEnd" ELSE "mouseup",
                module |-> dragState.draggedModule]
    /\ UNCHANGED <<loadVars, allModules, rootModules, rootObjects, connections, elCount, expandedModules,
                   modulePositions, elBox, dragOrigin, containerBounds, camVars>>

\* handleCanvasMouseLeave: leaving the canvas ends a drag
handleCanvasMouseLeave ==
    /\ dragState.isDragging
    /\ CountView
    /\ endModuleDrag(elBox)
    /\ last' = [op |-> "mouseleave", module |-> dragState.draggedModule]
    /\ UNCHANGED <<loadVars, allModules, rootModules, rootObjects, connections, elCount, expandedModules,
                   modulePositions, elBox, dragOrigin, containerBounds, camVars>>

\* mutant of CancelPosition: the position the drag began at
CancelPositionAtDragStart(module, store) == dragOrigin

\* cancelDrag: the position the dragged module is reset to
CancelPosition(module, store) == store[module]

\* cancelDrag (handleKeyDown, Escape while dragging)
cancelDrag ==
    LET module == dragState.draggedModule
        v1 == IF dragState.isDragging /\ module # NoModule
                 /\ module \in DOMAIN modulePositions
              THEN updateModulePosition(module, CancelPosition(module, modulePositions),
                                        expandedModules, View)
              ELSE View
    IN  /\ dragState.isDragging
        /\ CountView
        /\ modulePositions' = v1.store
        /\ elBox' = v1.el
        /\ endModuleDrag(v1.el)
        /\ last' = [op |-> "cancelDrag", module |-> module]
        /\ UNCHANGED <<loadVars, allModules, rootModules, rootObjects, connections, elCount, expandedModules,
                       dragOrigin, containerBounds, camVars>>

(***************************************************************************)
(* Loaded trees                                                             *)
(***************************************************************************)
Conn(id, target) == [id |-> id, target |-> target]

Tree1 ==
    [modules |-> {<<"A">>, <<"A", "B">>, <<"A", "B", "E">>, <<"A", "D">>, <<"C">>},
     connections |->
        (<<"A">> :> <<Conn("a1", <<"C">>)>>)
        @@ (<<"A", "B">> :> <<Conn("b1", <<"C">>), Conn("b2", <<"..", "D">>)>>)
        @@ (<<"A", "B", "E">> :> <<Conn("e1", <<"C">>), Conn("e2", <<"A", "D">>)>>)
        @@ (<<"C">> :> <<Conn("c1", <<"A", "B">>), Conn("c2", <<"X", "Y">>)>>)]

Tree2 ==
    [modules |-> {<<"A">>, <<"A", "B">>, <<"A", "C">>, <<"C">>, <<"D">>},
     connections |->
        (<<"A", "C">> :> <<Conn("k1", <<"C">>)>>)
        @@ (<<"D">> :> <<Conn("d1", <<"..", "C">>), Conn("d2", <<"B">>),
                         Conn("d3", <<"B">>)>>)]

\* roots A and C; B, a child of A, declares one connection to C
Tree3 ==
    [modules |-> {<<"A">>, <<"A", "B">>, <<"C">>},
     connections |-> (<<"A", "B">> :> <<Conn("b1", <<"C">>)>>)]

\* one root A with the three children B, C and D; B declares five connections
\* to its sibling C
Tree4 ==
    [modules |-> {<<"A">>, <<"A", "B">>, <<"A", "C">>, <<"A", "D">>},
     connections |->
        (<<"A", "B">> :> <<Conn("b1", <<"..", "C">>), Conn("b2", <<"..", "C">>),
                           Conn("b3", <<"..", "C">>), Conn("b4", <<"..", "C">>),
                           Conn("b5", <<"..", "C">>)>>)]

\* one root A with the children B and D, which both declare a connection to
\* their parent: B by its path, D by a relative path
Tree6 ==
    [modules |-> {<<"A">>, <<"A", "B">>, <<"A", "D">>},
     connections |->
        (<<"A", "B">> :> <<Conn("b1", <<"A">>)>>)
        @@ (<<"A", "D">> :> <<Conn("d1", <<"..", "A">>)>>)]

Trees == {Tree1, Tree2, Tree3, Tree4, Tree6}

\* pointer positions of the drag events (clientX, clientY); a move event may
\* also arrive at the position of the press
DragPoints == {[x |-> 100, y |-> 100], [x |-> 130, y |-> 80]}

\* where on the module's element the press that starts a drag lands
PressOffsets == {[x |-> 10, y |-> 10]}

\* canvasManager.container.getBoundingClientRect(): the places of the canvas
\* container in the window, at the window's corner and below a header beside
\* a side panel
ViewRects == {[left |-> 0, top |-> 0], [left |-> 20, top |-> 10]}

\* the root module objects buildModuleTreeFromDirectories creates for tree t
\* in load number n: a module object is identified by its path and its load,
\* and its children and connections are those of the tree it was built from
RootObjectsOf(t, n) ==
    LET roots == Roots(t.modules)
    IN  [i \in 1 .. Len(roots) |-> [path |-> roots[i], load |-> n, tree |-> t]]

\* the viewer after loadFileSystem has loaded tree t: the maps are cleared,
\* the tree is built and renderSystem has run
InitView(t) ==
    /\ fileSystem = t
    /\ pendingLoads = <<>>
    /\ allModules = t.modules
    /\ rootModules = Roots(t.modules)
    /\ rootObjects = RootObjectsOf(t, 1)
    /\ connections = t.connections
    /\ expandedModules = {}
    /\ dragState = IdleDrag
    /\ LET v == renderSystem({}, [store |-> <<>>, el |-> <<>>])
       IN  /\ modulePositions = v.store
           /\ elBox = v.el
           /\ elCount = [m \in DOMAIN v.el |-> getConnectionCount(m)]
           /\ lines = renderConnections({}, v.el)
    /\ last = [op |-> "load", module |-> NoModule]
    /\ dragOrigin = NoBox
    /\ containerBounds \in ViewRects
    /\ viewOps = 0

NextView ==
    \/ \E m \in allModules : toggleModuleExpansion(m)
    \/ \E m \in allModules, p \in PressOffsets : startModuleDrag(m, p, containerBounds)
    \/ \E e \in DragPoints \cup {dragState.startPos} : handleCanvasMouseMove(e)
    \/ \E b \in {0, 2} : handleCanvasMouseUp(b)
    \/ handleCanvasMouseLeave
    \/ cancelDrag

(***************************************************************************)
(* The camera on its own: the state after the constructor and initCanvas.   *)
(***************************************************************************)
InitCam ==
    /\ camera = [x |-> 0, y |-> 0, zoom |-> One]
    /\ isPanning = FALSE
    /\ panStartPos = [x |-> 0, y |-> 0]
    /\ panStartCamera = [x |-> 0, y |-> 0]
    /\ panStartZoom = One
    /\ lastMousePos = [x |-> 0, y |-> 0]
    /\ transformCache = Serialize([x |-> 0, y |-> 0, zoom |-> One])
    /\ styleTransform = Serialize([x |-> 0, y |-> 0, zoom |-> One])
    /\ styleWrites = 1
    /\ camLast = NoCamLast
    /\ camOps = 0

NextCam ==
    \/ \E b \in Buttons, e \in ClientPoints : handleMouseDown(b, e)
    \/ \E e \in ClientPoints : handleMouseMove(e)
    \/ \E b \in Buttons : handleMouseUp(b)
    \/ handleMouseLeave
    \/ \E d \in BOOLEAN, e \in ClientPoints, r \in ContainerRects : handleZoom(d, e, r)
    \/ \E c \in CameraStates : setCameraState(c)
    \/ \E r \in ContainerRects : resetView(r)

\* the camera after construction, over the viewer that has loaded the first tree
InitCamera == InitCam /\ InitView(Tree1)

\* the camera events, on a loaded viewer that is left alone
SpecCamera == InitCamera /\ [][NextCam]_vars

\* the viewer events, under the initial camera
Init == InitCam /\ \E t \in Trees : InitView(t)

Next == NextView

Spec == Init /\ [][Next]_vars

(***************************************************************************)
(* Loading again.  The constructor leaves every collection empty;           *)
(* loadFileSystem clears the maps and the expansion set, builds the module  *)
(* objects of the chosen directory and renders.  rootModules is an array    *)
(* that buildModuleTreeFromDirectories only pushes to.  The load is taken   *)
(* from its call to its completion, with no other event in between.         *)
(***************************************************************************)
\* new Map(): no files
NoFiles == [modules |-> {}, connections |-> <<>>]

\* the viewer after its constructor
InitConstructed ==
    /\ InitCam
    /\ fileSystem = NoFiles
    /\ pendingLoads = <<>>
    /\ allModules = {}
    /\ rootModules = <<>>
    /\ rootObjects = <<>>
    /\ connections = <<>>
    /\ expandedModules = {}
    /\ dragState = IdleDrag
    /\ modulePositions = <<>>
    /\ elBox = <<>>
    /\ elCount = <<>>
    /\ lines = <<>>
    /\ last = [op |-> "construct", module |-> NoModule]
    /\ dragOrigin = NoBox
    /\ containerBounds \in ViewRects
    /\ viewOps = 0

RemoveAt(s, i) == SubSeq(s, 1, i - 1) \o SubSeq(s, i + 1, Len(s))

\* rootModules.sort((a, b) => a.name.localeCompare(b.name)): a stable sort,
\* objects of the same name keep the order they were pushed in
RECURSIVE SortObjectsByName(_)
SortObjectsByName(objs) ==
    IF objs = <<>> THEN <<>>
    ELSE LET rank(i) == NameRank(Name(objs[i].path))
             first == CHOOSE i \in 1 .. Len(objs) :
                          /\ \A j \in 1 .. Len(objs) : rank(i) <= rank(j)
                          /\ \A j \in 1 .. i - 1 : rank(j) # rank(i)
         IN  <<objs[first]>> \o SortObjectsByName(RemoveAt(objs, first))

\* getConnectionsForModule for a module object built from tree t none of
\* whose children is in the visible list (nothing is expanded after a load):
\* its own connections, then those gathered from each child
RECURSIVE ConnectionsOfObject(_, _)
ConnectionsOfObject(t, p) ==
    LET own  == IF p \in DOMAIN t.connections THEN t.connections[p] ELSE <<>>
        kids == ChildrenIn(t, p)
    IN  own \o Concat([i \in 1 .. Len(kids) |-> ConnectionsOfObject(t, kids[i])])

\* findTargetModule while the module map holds the modules mods
findTargetObject(mods, targetPath, visibleModules) ==
    IF IsRelative(targetPath)
    THEN FindByName(targetPath[Len(targetPath)], visibleModules)
    ELSE IF targetPath \in mods /\ InSeq(visibleModules, targetPath)
    THEN targetPath
    ELSE FindByName(targetPath[Len(targetPath)], visibleModules)

\* the inner loop of calculateConnectionPairs, while the module map holds mods
RECURSIVE AddObjectConnections(_, _, _, _, _)
AddObjectConnections(mods, pairs, module, conns, visibleModules) ==
    IF conns = <<>> THEN pairs
    ELSE LET conn   == Head(conns)
             target == findTargetObject(mods, conn.target, visibleModules)
         IN  AddObjectConnections(mods,
                                  IF target # NoModule
                                  THEN AddToPairs(pairs, module, target, conn)
                                  ELSE pairs,
                                  module, Tail(conns), visibleModules)

\* the outer loop of calculateConnectionPairs over the root objects objs
RECURSIVE PairsOfObjects(_, _, _, _)
PairsOfObjects(mods, pairs, i, objs) ==
    IF i > Len(objs) THEN pairs
    ELSE PairsOfObjects(mods,
                        AddObjectConnections(mods, pairs, objs[i].path,
                            ConnectionsOfObject(objs[i].tree, objs[i].path),
                            [j \in 1 .. Len(objs) |-> objs[j].path]),
                        i + 1, objs)

\* renderConnections after a load: the visible list is the root list objs,
\* the module map holds mods and the elements have the boxes el
LoadedLines(mods, objs, el) ==
    LET pairs == PairsOfObjects(mods, <<>>, 1, objs)
        drawn == SelectSeq(pairs, LAMBDA p : p.from \in DOMAIN el /\ p.to \in DOMAIN el)
    IN  [i \in 1 .. Len(drawn) |->
            [from |-> drawn[i].from, to |-> drawn[i].to,
             connections |-> drawn[i].connections,
             thickness |-> LineThickness(Len(drawn[i].connections)),
             fromRect |-> el[drawn[i].from], toRect |-> el[drawn[i].to],
             anchors |-> renderConnectionArrow(el[drawn[i].from], el[drawn[i].to])]]

\* renderSystem after a load that leaves the root paths roots: nothing is
\* expanded, so the visible list is the root list, and the position map is
\* empty
LoadedView(roots) ==
    LET r == calculateModulePositions(roots, 1, <<>>, <<>>, {})
    IN  [store |-> r.store,
         el    |-> [m \in Range(roots) |-> r.positions[IndexOf(roots, m)]]]

\* loadFileSystem(files), files being the directory tree t
loadFileSystem(t) ==
    /\ viewOps < MaxLoads
    /\ viewOps' = viewOps + 1
    /\ fileSystem' = t
    /\ allModules' = t.modules
    /\ expandedModules' = {}
    /\ connections' = t.connections
    /\ LET objs  == SortObjectsByName(rootObjects \o RootObjectsOf(t, viewOps + 1))
           roots == [i \in 1 .. Len(objs) |-> objs[i].path]
           v     == LoadedView(roots)
       IN  /\ rootObjects' = objs
           /\ rootModules' = roots
           /\ modulePositions' = v.store
           /\ elBox' = v.el
           /\ elCount' = [m \in DOMAIN v.el |->
                             LET o == objs[IndexOf(roots, m)]
                             IN  getConnectionCountOf(o.tree, o.path)]
           /\ lines' = LoadedLines(t.modules, objs, v.el)
    /\ last' = [op |-> "load", module |-> NoModule]
    /\ UNCHANGED <<pendingLoads, dragState, dragOrigin, containerBounds, camVars>>

\* the directory trees a load may be given
NextReload == \E t \in Trees : loadFileSystem(t)

SpecReload == InitConstructed /\ [][NextReload]_vars

(***************************************************************************)
(* Loading in steps.  loadFileSystem is an async function: it clears the    *)
(* collections, fills fileSystem and runs into parseConnectionFiles up to   *)
(* the first `await file.text()`; it goes on when that file has been read,  *)
(* one connections.json at a time, and builds and renders after the last.   *)
(* Between two steps of a load the viewer handles other events: the module  *)
(* elements of the previous render are still on the canvas, with their      *)
(* listeners, and the folder input can start another load.                  *)
(*                                                                          *)
(* After a reload the visible list holds module objects of several loads,   *)
(* so this section works on module objects (path, load, tree) where the     *)
(* code compares objects.  The pointer events taken here are those on the   *)
(* root elements of a canvas that shows roots only with nothing expanded;   *)
(* an expansion is taken while the module map is empty (a load is           *)
(* suspended).                                                              *)
(***************************************************************************)
\* roots C and D, each declaring one connection to the other
Tree5 ==
    [modules |-> {<<"C">>, <<"D">>},
     connections |-> (<<"C">> :> <<Conn("c1", <<"D">>)>>)
                     @@ (<<"D">> :> <<Conn("d1", <<"C">>)>>)]

\* the directory trees chosen in the folder input
LoadingTrees == {Tree3, Tree5}

\* parseConnectionFiles: the directories of the connections.json files among
\* the keys of fileSystem, in the order of the file list (by name)
ConnectionFiles(t) == SortByName(DOMAIN t.connections)

\* the for loop of parseConnectionFiles from index from on: the first path
\* whose file fileSystem holds (fileSystem.get gives undefined for the others,
\* file.text() throws and the catch goes on to the next path); 0 when none
NextFile(files, from, fs) ==
    IF \E j \in from .. Len(files) : files[j] \in DOMAIN fs.connections
    THEN CHOOSE j \in from .. Len(files) :
             /\ files[j] \in DOMAIN fs.connections
             /\ \A k \in from .. j - 1 : files[k] \notin DOMAIN fs.connections
    ELSE 0

\* module.children as module objects: built in the same load from the same tree
ObjChildren(o) ==
    LET kids == ChildrenIn(o.tree, o.path)
    IN  [i \in 1 .. Len(kids) |-> [path |-> kids[i], load |-> o.load, tree |-> o.tree]]

\* getVisibleModules / addExpandedChildren over module objects
RECURSIVE VisibleObjects(_, _)
VisibleObjects(objs, exp) ==
    IF objs = <<>> THEN <<>>
    ELSE <<Head(objs)>>
         \o (IF Head(objs).path \in exp
             THEN VisibleObjects(ObjChildren(Head(objs)), exp) ELSE <<>>)
         \o VisibleObjects(Tail(objs), exp)

PathsOf(objs) == [i \in 1 .. Len(objs) |-> objs[i].path]

\* the load that built the objects the module map holds
LatestLoad(objs) == SetMax({0} \cup {objs[i].load : i \in 1 .. Len(objs)})

\* the JavaScript remainder a % b for b > 0: it has the sign of a
JsRem(a, b) == IF a < 0 THEN -((-a) % b) ELSE a % b

\* calculateChildPosition over module objects: the parent is the object the
\* module map holds under the parent path
calculateChildObjectPosition(childModule, modules, existingPositions, mods) ==
    LET parentPath  == ParentPath(childModule.path)
        isParent(o) == o.path = parentPath /\ o.load = LatestLoad(modules)
        parentIndex == IF parentPath \in mods
                          /\ \E j \in 1 .. Len(modules) : isParent(modules[j])
                       THEN CHOOSE j \in 1 .. Len(modules) : isParent(modules[j])
                       ELSE 0
    IN  IF parentIndex = 0
        THEN Box(50, 50, childWidth, childHeight)
        ELSE LET parentPosition == existingPositions[parentIndex]
                 siblings   == SelectSeq(ObjChildren(modules[parentIndex]),
                                         LAMBDA c : InSeq(modules, c))
                 childIndex == IndexOf(siblings, childModule) - 1
                 childCols  == CeilSqrt(Len(siblings))
                 col        == JsRem(childIndex, childCols)
                 row        == childIndex \div childCols
             IN  Box(parentPosition.x + padding + col * (childWidth + childSpacing),
                     parentPosition.y + titleHeight + padding
                         + row * (childHeight + childSpacing),
                     childWidth, childHeight)

\* calculateInitialPosition over module objects
calculateInitialObjectPosition(module, modules, existingPositions, exp, mods) ==
    IF isChildOfExpandedParent(module.path, exp)
    THEN calculateChildObjectPosition(module, modules, existingPositions, mods)
    ELSE LET roots       == SelectSeq(modules,
                                LAMBDA o : ~isChildOfExpandedParent(o.path, exp))
             moduleIndex == IndexOf(roots, module) - 1
             cols        == CeilSqrt(Len(roots))
             col         == moduleIndex % cols
             row         == moduleIndex \div cols
             visibleChildren == SelectSeq(ObjChildren(module), LAMBDA c : InSeq(modules, c))
             grown       == module.path \in exp /\ Len(visibleChildren) > 0
             childLayout == calculateExpandedSize(Len(visibleChildren))
         IN  Box(col * (baseWidth + spacing) + gridOrigin,
                 row * (baseHeight + spacing) + gridOrigin,
                 IF grown THEN Max(minExpandedWidth, childLayout.width + expandedExtraWidth)
                          ELSE baseWidth,
                 IF grown THEN Max(minExpandedHeight,
                                   childLayout.height + expandedExtraHeight)
                          ELSE baseHeight)

\* calculateModulePositions over module objects; the position map is keyed
\* by path
RECURSIVE calculateObjectPositions(_, _, _, _, _, _)
calculateObjectPositions(modules, i, positions, store, exp, mods) ==
    IF i > Len(modules) THEN [positions |-> positions, store |-> store]
    ELSE LET m == modules[i]
         IN  IF m.path \in DOMAIN store
             THEN calculateObjectPositions(modules, i + 1,
                      Append(positions, StoredPosition(store[m.path])), store, exp, mods)
             ELSE LET position == calculateInitialObjectPosition(m, modules, positions,
                                                                 exp, mods)
                  IN  calculateObjectPositions(modules, i + 1,
                          Append(positions, position), Put(store, m.path, position),
                          exp, mods)

\* renderAllVisibleModules over the root objects objs: the position map and,
\* for each path, the box of the first element rendered with that path (the
\* one document.querySelector finds)
renderVisibleObjects(objs, exp, store, mods) ==
    LET modules == VisibleObjects(objs, exp)
        r == calculateObjectPositions(modules, 1, <<>>, store, exp, mods)
    IN  [store |-> r.store,
         el    |-> [p \in Range(PathsOf(modules)) |->
                       r.positions[IndexOf(PathsOf(modules), p)]]]

\* getConnectionsForModule for a visible module object: its children are in
\* the visible list exactly when its path is expanded; a hidden child's
\* subtree is hidden with it
ConnectionsOfVisible(o, exp) ==
    IF o.path \in exp /\ ObjChildren(o) # <<>>
    THEN <<>>
    ELSE ConnectionsOfObject(o.tree, o.path)

\* the outer loop of calculateConnectionPairs over the visible objects
RECURSIVE PairsOfVisible(_, _, _, _, _)
PairsOfVisible(mods, pairs, i, modules, exp) ==
    IF i > Len(modules) THEN pairs
    ELSE PairsOfVisible(mods,
                        AddObjectConnections(mods, pairs, modules[i].path,
                            ConnectionsOfVisible(modules[i], exp), PathsOf(modules)),
                        i + 1, modules, exp)

\* renderConnections over the root objects objs
linesOfObjects(mods, objs, exp, el) ==
    LET pairs == PairsOfVisible(mods, <<>>, 1, VisibleObjects(objs, exp), exp)
        drawn == SelectSeq(pairs, LAMBDA p : p.from \in DOMAIN el /\ p.to \in DOMAIN el)
    IN  [i \in 1 .. Len(drawn) |->
            [from |-> drawn[i].from, to |-> drawn[i].to,
             connections |-> drawn[i].connections,
             thickness |-> LineThickness(Len(drawn[i].connections)),
             fromRect |-> el[drawn[i].from], toRect |-> el[drawn[i].to],
             anchors |-> renderConnectionArrow(el[drawn[i].from], el[drawn[i].to])]]

\* the connection counts renderModule writes into the titles
countsOfObjects(objs, exp, el) ==
    LET modules == VisibleObjects(objs, exp)
    IN  [p \in DOMAIN el |->
            LET o == modules[IndexOf(PathsOf(modules), p)]
            IN  getConnectionCountOf(o.tree, o.path)]

\* the rest of loadFileSystem after parseConnectionFiles has returned:
\* buildModuleTreeFromDirectories over fileSystem fs, with the connections
\* map conns, then renderSystem; n numbers the load
finishLoad(fs, conns, exp, store, n) ==
    LET built == [modules     |-> fs.modules,
                  connections |-> [p \in DOMAIN conns \cap fs.modules |-> conns[p]]]
        objs  == SortObjectsByName(rootObjects \o RootObjectsOf(built, n))
        v     == renderVisibleObjects(objs, exp, store, allModules \cup fs.modules)
    IN  /\ allModules' = allModules \cup fs.modules
        /\ connections' = conns
        /\ expandedModules' = exp
        /\ rootObjects' = objs
        /\ rootModules' = PathsOf(objs)
        /\ modulePositions' = v.store
        /\ elBox' = v.el
        /\ elCount' = countsOfObjects(objs, exp, v.el)
        /\ lines' = linesOfObjects(allModules \cup fs.modules, objs, exp, v.el)
        /\ last' = [op |-> "load", module |-> NoModule]

\* loadFileSystem(files) up to its first await: the collections are cleared,
\* fileSystem is filled with the files of tree t and the first connection
\* file is being read
beginLoad(t) ==
    LET files == ConnectionFiles(t)
        j     == NextFile(files, 1, t)
    IN  /\ CountView
        /\ fileSystem' = t
        /\ IF j # 0
           THEN /\ pendingLoads' = Append(pendingLoads,
                                      [files |-> files, at |-> j,
                                       content |-> t.connections[files[j]]])
                /\ allModules' = {}
                /\ expandedModules' = {}
                /\ connections' = <<>>
                /\ modulePositions' = <<>>
                /\ last' = [op |-> "loadBegin", module |-> NoModule]
                /\ UNCHANGED <<rootModules, rootObjects, elBox, elCount, lines>>
           ELSE /\ finishLoad(t, <<>>, {}, <<>>, viewOps + 1)
                /\ UNCHANGED pendingLoads
        /\ UNCHANGED <<dragState, dragOrigin, containerBounds, camVars>>

\* the suspended call k goes on: the file it awaited has been read and is
\* stored under its directory; the loop gets the next file from fileSystem
\* and awaits it, or, after the last one, the load builds and renders
resumeLoad(k) ==
    LET c      == pendingLoads[k]
        conns1 == Put(connections, c.files[c.at], c.content)
        j      == NextFile(c.files, c.at + 1, fileSystem)
    IN  /\ CountView
        /\ IF j # 0
           THEN /\ pendingLoads' = [pendingLoads EXCEPT ![k] =
                                       [c EXCEPT !.at = j,
                                                 !.content = fileSystem.connections[c.files[j]]]]
                /\ connections' = conns1
                /\ last' = [op |-> "loadStep", module |-> NoModule]
                /\ UNCHANGED <<allModules, rootModules, rootObjects, expandedModules,
                               modulePositions, elBox, elCount, lines>>
           ELSE /\ pendingLoads' = RemoveAt(pendingLoads, k)
                /\ finishLoad(fileSystem, conns1, expandedModules, modulePositions,
                              viewOps + 1)
        /\ UNCHANGED <<fileSystem, dragState, dragOrigin, containerBounds, camVars>>

\* the canvas shows root modules only and nothing is expanded
RootsOnly == expandedModules = {} /\ \A p \in DOMAIN elBox : Level(p) = 0

\* recalculateParentBounds for a module object whose children are all visible
recalculateObjectBounds(parentModule, v) ==
    LET children == Range(PathsOf(ObjChildren(parentModule)))
        placed   == {c \in children : c \in DOMAIN v.store}
        path     == parentModule.path
    IN  IF path \notin DOMAIN v.el \/ placed = {} THEN v
        ELSE LET minX == SetMin({v.store[c].x : c \in placed})
                 minY == SetMin({v.store[c].y : c \in placed})
                 maxX == SetMax({v.store[c].x + v.store[c].width : c \in placed})
                 maxY == SetMax({v.store[c].y + v.store[c].height : c \in placed})
                 new  == Box(minX - padding, minY - titleHeight - padding,
                             maxX - minX + padding * 2,
                             maxY - minY + titleHeight + padding * 2)
             IN  [store |-> Put(v.store, path, new),
                  el    |-> [v.el EXCEPT ![path] = new]]

\* toggleModuleExpansion on the element of root object i while a load is
\* suspended (left press on a module element of the previous render)
toggleObjectExpansion(i) ==
    LET module == rootObjects[i]
        exp1   == expandedModules \cup {module.path}
        v1     == renderVisibleObjects(rootObjects, exp1, modulePositions, allModules)
        v2     == recalculateObjectBounds(module, v1)
    IN  /\ allModules = {}
        /\ RootsOnly
        /\ module.path \in DOMAIN elBox
        /\ CountView
        /\ IF ObjChildren(module) = <<>>
           THEN /\ UNCHANGED <<expandedModules, modulePositions, elBox, elCount, lines>>
                /\ last' = [op |-> "select", module |-> module.path]
           ELSE /\ expandedModules' = exp1
                /\ modulePositions' = v2.store
                /\ elBox' = v2.el
                /\ elCount' = countsOfObjects(rootObjects, exp1, v2.el)
                /\ lines' = linesOfObjects(allModules, rootObjects, exp1, v2.el)
                /\ last' = [op |-> "expand", module |-> module.path]
        /\ UNCHANGED <<loadVars, allModules, rootModules, rootObjects, connections,
                       dragState, dragOrigin, containerBounds, camVars>>

\* startModuleDrag on a root element (right press)
startRootDrag(module, press, containerRect) ==
    /\ RootsOnly
    /\ startModuleDrag(module, press, containerRect)

\* updateModuleDrag while a root is dragged on a canvas of roots
updateRootDrag(e, containerRect) ==
    LET module   == dragState.draggedModule
        canvasX  == e.x - containerRect.left
        canvasY  == e.y - containerRect.top
        worldPos == ScreenToWorldPx(canvasX - dragState.offset.x,
                                    canvasY - dragState.offset.y)
        v1 == updateModulePosition(module, worldPos, expandedModules, View)
    IN  /\ dragState.isDragging
        /\ module # NoModule
        /\ RootsOnly
        /\ CountView
        /\ modulePositions' = v1.store
        /\ elBox' = v1.el
        /\ lines' = linesOfObjects(allModules, rootObjects, expandedModules, v1.el)
        /\ last' = [op |-> "dragUpdate", module |-> module]
        /\ UNCHANGED <<loadVars, allModules, rootModules, rootObjects, connections,
                       elCount, expandedModules, dragState, dragOrigin, containerBounds, camVars>>

\* handleCanvasMouseUp with the right button while a root is dragged:
\* endModuleDrag
endRootDrag ==
    /\ dragState.isDragging
    /\ RootsOnly
    /\ CountView
    /\ lines' = IF dragState.draggedModule # NoModule
                THEN linesOfObjects(allModules, rootObjects, expandedModules, elBox)
                ELSE lines
    /\ dragState' = IdleDrag
    /\ last' = [op |-> "dragEnd", module |-> dragState.draggedModule]
    /\ UNCHANGED <<loadVars, allModules, rootModules, rootObjects, connections, elCount,
                   expandedModules, modulePositions, elBox, dragOrigin, containerBounds, camVars>>

NextLoading ==
    \/ \E t \in LoadingTrees : beginLoad(t)
    \/ \E k \in 1 .. Len(pendingLoads) : resumeLoad(k)
    \/ \E i \in 1 .. Len(rootObjects) : toggleObjectExpansion(i)
    \/ \E m \in Range(rootModules), p \in PressOffsets :
           startRootDrag(m, p, containerBounds)
    \/ \E e \in DragPoints \cup {dragState.startPos} : updateRootDrag(e, containerBounds)
    \/ endRootDrag

\* the loads and the pointer events handled between their steps, from the
\* constructed viewer
SpecLoading == InitConstructed /\ [][NextLoading]_vars

(***************************************************************************)
(* Properties of the camera (checked under SpecCamera).                     *)
(***************************************************************************)

\* C1: in every reachable state the zoom lies within [minZoom, maxZoom].
C1_ZoomWithinBounds == minZoom <= camera.zoom /\ camera.zoom <= maxZoom

\* C1 witness: setCameraState was given a zoom above maxZoom and clamped it.
C1_Witness ==
    /\ camLast.op = "set"
    /\ camera.x = FromRat(-4, 1)
    /\ camera.zoom = maxZoom

\* C2: a wheel zoom whose tentative zoom (zoom times factor) lies outside
\* [minZoom, maxZoom] changes neither the camera nor the applied transform.
C2_RejectedZoomIsNoOp ==
    [][(/\ camOps' # camOps
        /\ camLast'.op = "zoom"
        /\ (camLast'.tentative < minZoom \/ camLast'.tentative > maxZoom))
       => UNCHANGED <<camera, transformCache, styleTransform>>]_vars

\* C2 witness: a wheel zoom beyond maxZoom has been handled.
C2_Witness ==
    /\ camLast.op = "zoom"
    /\ camLast.tentative > maxZoom
    /\ camLast.pre.zoom = maxZoom
    /\ camera = camLast.pre

\* tolerance: n units in the last place of the larger of |a| and |b|
Tol(n, a, b) == n * Ulp(Max(Abs(a), Abs(b)))

\* C3 (as claimed): after an accepted zoom at s the world point that was
\* under s maps back to exactly s.
C3_ZoomFixesPointExactly ==
    (camLast.op = "zoom" /\ camLast.accepted)
        => worldToScreen(camera, camLast.world.x, camLast.world.y) = camLast.mouse

\* C3 (amended): after an accepted zoom at s the world point that was under
\* s maps back to s up to rounding: within 4 units in the last place of the
\* larger of |s| and the camera offset before the zoom, on each axis.
C3_ZoomFixesPointWithinRounding ==
    (camLast.op = "zoom" /\ camLast.accepted)
        => LET back == worldToScreen(camera, camLast.world.x, camLast.world.y)
           IN  /\ Abs(back.x - camLast.mouse.x)
                      <= Tol(4, camLast.mouse.x, camLast.pre.x)
               /\ Abs(back.y - camLast.mouse.y)
                      <= Tol(4, camLast.mouse.y, camLast.pre.y)

\* C3 witness: an accepted zoom after which the point under the cursor maps
\* back to a different (but nearby) screen position.
C3_Witness ==
    /\ camLast.op = "zoom"
    /\ camLast.accepted
    /\ camera.zoom # camLast.pre.zoom
    /\ worldToScreen(camera, camLast.world.x, camLast.world.y) # camLast.mouse

\* points the round trips are tried on
TestCoords == {FromRat(n, 1) : n \in -3 .. 12}

ScreenRoundTrip(cam, p) ==
    LET w == screenToWorld(cam, p, p) IN worldToScreen(cam, w.x, w.y)

WorldRoundTrip(cam, p) ==
    LET s == worldToScreen(cam, p, p) IN screenToWorld(cam, s.x, s.y)

\* C4 (as claimed): the two conversions are exact inverses of each other.
C4_ConversionsExactInverses ==
    \A p \in TestCoords :
        /\ ScreenRoundTrip(camera, p) = [x |-> p, y |-> p]
        /\ WorldRoundTrip(camera, p) = [x |-> p, y |-> p]

\* C4 (amended): the two conversions are inverses up to rounding.
\* worldToScreen(screenToWorld(p)) differs from p by at most 8 units in the
\* last place of the larger of |p| and the camera offset; and
\* screenToWorld(worldToScreen(p)), scaled by zoom, differs from p scaled by
\* zoom by at most 8 units in the last place of the larger of |p * zoom| and
\* the camera offset.
C4_ConversionsInverseWithinRounding ==
    \A p \in TestCoords :
        LET s == ScreenRoundTrip(camera, p)
            w == WorldRoundTrip(camera, p)
            t == FMul(p, camera.zoom)
        IN  /\ Abs(s.x - p) <= Tol(8, p, camera.x)
            /\ Abs(s.y - p) <= Tol(8, p, camera.y)
            /\ Abs(w.x - p) * camera.zoom <= Tol(8, t, camera.x) * Q
            /\ Abs(w.y - p) * camera.zoom <= Tol(8, t, camera.y) * Q

\* C4 witness: a camera reached by a wheel zoom under which a round trip
\* does not return the point it started from.
C4_Witness ==
    /\ camLast.op = "zoom"
    /\ camLast.accepted
    /\ \E p \in TestCoords : ScreenRoundTrip(camera, p).x # p

(***************************************************************************)
(* Properties of the viewer (checked under Spec).                           *)
(***************************************************************************)
Visible == getVisibleModules(expandedModules)

\* C5: in every reachable expansion state the visible list holds every root,
\* and holds a non-root module only if its parent is in the list too and the
\* parent's path is in the expansion set.
C5_VisibleListParentClosed ==
    /\ \A i \in 1 .. Len(rootModules) : InSeq(Visible, rootModules[i])
    /\ \A i \in 1 .. Len(Visible) :
          Level(Visible[i]) > 0 =>
              /\ InSeq(Visible, ParentPath(Visible[i]))
              /\ ParentPath(Visible[i]) \in expandedModules

\* C5 witness: after an expansion a nested module is listed while another
\* module of the tree stays out of the list.
C5_Witness ==
    /\ last.op = "expand"
    /\ \E i \in 1 .. Len(Visible) : Level(Visible[i]) > 0
    /\ \E m \in allModules : ~InSeq(Visible, m)

\* C6: collapsing an expanded module M removes M and every descendant of M
\* from the expansion set (and nothing else); every expansion of M, a
\* re-expansion after a collapse included, makes exactly the direct children
\* of M visible among the descendants of M.
C6_CollapseClearsSubtree ==
    [][ /\ last'.op = "collapse" =>
              LET M == last'.module
              IN  /\ M \in expandedModules
                  /\ expandedModules' = expandedModules \ ({M} \cup Descendants(M))
        /\ last'.op = "expand" =>
              LET M   == last'.module
                  vis == getVisibleModules(expandedModules')
              IN  {d \in Descendants(M) : InSeq(vis, d)} = Range(Children(M))
      ]_vars

\* C6 witness: A has just been re-expanded after a collapse that hid its
\* expanded child A/B: the grandchild A/B/E has been rendered before (it has
\* a stored position) and is not visible now.
C6_Witness ==
    /\ last = [op |-> "expand", module |-> <<"A">>]
    /\ <<"A", "B", "E">> \in DOMAIN modulePositions
    /\ <<"A", "B">> \in DOMAIN elBox
    /\ <<"A", "B", "E">> \notin DOMAIN elBox

\* a step is a drag update of an expanded container
DragsExpandedContainer ==
    /\ last'.op = "dragUpdate"
    /\ last'.module \in expandedModules
    /\ last'.module \in DOMAIN modulePositions

\* the stored box of every visible descendant of M moves by the delta of M
DescendantsFollow(M) ==
    LET dx == modulePositions'[M].x - modulePositions[M].x
        dy == modulePositions'[M].y - modulePositions[M].y
    IN  \A d \in Descendants(M) :
            InSeq(Visible, d) => modulePositions'[d] = Shift(modulePositions[d], dx, dy)

\* C7 as stated: a drag update of an expanded container moves the stored box
\* of every visible descendant by the container's delta and leaves the stored
\* box of every module that is not a descendant of the container unchanged.
C7_DragLeavesNonDescendants ==
    [][ DragsExpandedContainer =>
            LET M == last'.module
            IN  /\ DescendantsFollow(M)
                /\ \A o \in DOMAIN modulePositions :
                       (o # M /\ o \notin Descendants(M)) =>
                           modulePositions'[o] = modulePositions[o]
      ]_vars

\* C7 amended: a drag update of an expanded container moves the stored box of
\* every visible descendant by the container's delta and leaves unchanged the
\* stored box of every module that is neither the container, nor one of its
\* descendants, nor one of its ancestors (whose boxes are recomputed).
C7_DragLeavesUnrelated ==
    [][ DragsExpandedContainer =>
            LET M == last'.module
            IN  /\ DescendantsFollow(M)
                /\ \A o \in DOMAIN modulePositions :
                       (o # M /\ o \notin Descendants(M) /\ o \notin Ancestors(M)) =>
                           modulePositions'[o] = modulePositions[o]
      ]_vars

\* C7 witness: the expanded container A, whose child A/B is expanded too, has
\* been dragged away from where the drag began; the grandchild is visible.
C7_Witness ==
    /\ last = [op |-> "dragUpdate", module |-> <<"A">>]
    /\ {<<"A">>, <<"A", "B">>} \subseteq expandedModules
    /\ <<"A", "B", "E">> \in DOMAIN elBox
    /\ modulePositions[<<"A">>].x # dragOrigin.x
    /\ modulePositions[<<"A">>].y # dragOrigin.y

\* C8 as stated: cancelling a drag restores the dragged module's stored box
\* to the value it had when the drag began, redraws the connections as a
\* drop does, and leaves the drag state idle.
C8_CancelRestoresPreDragBox ==
    [][ (last'.op = "cancelDrag" /\ last'.module \in DOMAIN modulePositions) =>
            /\ modulePositions'[last'.module] = dragOrigin
            /\ lines' = renderConnections(expandedModules', elBox')
            /\ dragState' = IdleDrag
      ]_vars

\* the connections attributed to the visible module m in this state
Attributed(m) == getConnectionsForModule(m, Visible)

\* how many times the visible module m is attributed the connection c
Occurrences(c, m) ==
    Cardinality({k \in 1 .. Len(Attributed(m)) : Attributed(m)[k] = c})

\* the declaring module if it is visible, otherwise its nearest visible ancestor
NearestVisible(d) ==
    IF InSeq(Visible, d) THEN d
    ELSE CHOOSE a \in Ancestors(d) :
             /\ InSeq(Visible, a)
             /\ \A b \in Ancestors(d) : InSeq(Visible, b) => Len(b) <= Len(a)

\* d is visible and so is one of its children
HasVisibleChildren(d) ==
    InSeq(Visible, d) /\ \E c \in Range(Children(d)) : InSeq(Visible, c)

\* C9 as stated: in every reachable expansion state every declared connection
\* is attributed to exactly one visible module, the declaring module if it is
\* visible and its nearest visible ancestor otherwise, exactly once.
C9_EveryConnectionAttributedOnce ==
    \A d \in DOMAIN connections : \A i \in 1 .. Len(connections[d]) :
        \A m \in Range(Visible) :
            Occurrences(connections[d][i], m) = IF m = NearestVisible(d) THEN 1 ELSE 0

\* C9 amended: in every reachable expansion state a connection declared by a
\* module that is hidden, or visible without visible children, is attributed
\* exactly once, to the declaring module if it is visible and to its nearest
\* visible ancestor otherwise; a connection declared by a visible module that
\* has visible children is attributed to no module.
C9_AttributedOnceUnlessChildrenVisible ==
    \A d \in DOMAIN connections : \A i \in 1 .. Len(connections[d]) :
        \A m \in Range(Visible) :
            Occurrences(connections[d][i], m) =
                IF m = NearestVisible(d) /\ ~HasVisibleChildren(d) THEN 1 ELSE 0

\* C9 witness: in the first tree A is expanded and A/B is not: the connection
\* e1 declared by the hidden A/B/E is attributed to A/B, and the connection a1
\* declared by A, whose children are visible, is attributed to nobody.
C9_Witness ==
    /\ expandedModules = {<<"A">>}
    /\ <<"A", "B", "E">> \in DOMAIN connections
    /\ Occurrences(Conn("e1", <<"C">>), <<"A", "B">>) = 1
    /\ \A m \in Range(Visible) : Occurrences(Conn("a1", <<"C">>), m) = 0

\* the attributed connections whose target resolves to a visible module, each
\* named by its source module and its place in that module's list
Resolved ==
    UNION {{<<m, k>> : k \in {j \in 1 .. Len(Attributed(m)) :
                                 findTargetModule(Attributed(m)[j].target, Visible) # NoModule}} :
           m \in Range(Visible)}

ResolvedTo(from, to) ==
    {r \in Resolved : r[1] = from
                      /\ findTargetModule(Attributed(from)[r[2]].target, Visible) = to}

RECURSIVE SumOfWeights(_)
SumOfWeights(ls) ==
    IF ls = <<>> THEN 0 ELSE Len(Head(ls).connections) + SumOfWeights(Tail(ls))

\* C10: in every render pass there is at most one line per ordered pair of
\* visible modules, its weight is the number of connections that resolved to
\* that pair, and the weights add up to the number of resolved connections.
C10_OneEdgePerPairWeightIsCount ==
    /\ \A i, j \in 1 .. Len(lines) :
           (lines[i].from = lines[j].from /\ lines[i].to = lines[j].to) => i = j
    /\ \A i \in 1 .. Len(lines) :
           Len(lines[i].connections) = Cardinality(ResolvedTo(lines[i].from, lines[i].to))
    /\ SumOfWeights(lines) = Cardinality(Resolved)

\* C10 witness: a render pass with two lines leaving the same module, one of
\* them of weight two or more, while some attributed connection is unresolved.
C10_Witness ==
    /\ \E i, j \in 1 .. Len(lines) :
           /\ i # j
           /\ lines[i].from = lines[j].from
           /\ Len(lines[i].connections) >= 2
    /\ \E m \in Range(Visible) : \E k \in 1 .. Len(Attributed(m)) : <<m, k>> \notin Resolved

\* box outer contains box inner
Contains(outer, inner) ==
    /\ outer.x <= inner.x
    /\ outer.y <= inner.y
    /\ inner.x + inner.width <= outer.x + outer.width
    /\ inner.y + inner.height <= outer.y + outer.height

\* the lines are exactly one line, from module from to module to
OnlyEdge(from, to) ==
    /\ Len(lines) = 1
    /\ lines[1].from = from
    /\ lines[1].to = to

\* C11: with roots A and C, and B a child of A declaring one connection to C:
\* while A is collapsed the only edge is A->C; while A is expanded the only
\* edge is B->C and the stored box of A contains the stored box of B.
C11_EdgeFollowsExpansion ==
    allModules = Tree3.modules =>
        IF <<"A">> \in expandedModules
        THEN /\ OnlyEdge(<<"A", "B">>, <<"C">>)
             /\ Contains(modulePositions[<<"A">>], modulePositions[<<"A", "B">>])
        ELSE OnlyEdge(<<"A">>, <<"C">>)

\* C11 witness: in that tree A has just been expanded and the edge leaves B.
C11_Witness ==
    /\ allModules = Tree3.modules
    /\ last = [op |-> "expand", module |-> <<"A">>]
    /\ OnlyEdge(<<"A", "B">>, <<"C">>)

\* a target reference matches a visible module, by exact path or by the name
\* of its final component
MatchesVisible(targetPath) ==
    \/ InSeq(Visible, targetPath)
    \/ \E i \in 1 .. Len(Visible) : Name(Visible[i]) = targetPath[Len(targetPath)]

\* C12: both endpoints of every line are visible modules; a line carries
\* exactly the connections attributed to its source that resolve to its
\* target, in order, so a connection whose target matches no visible module
\* is on no line and leaves the other lines as they are; every connection
\* that resolves is on a line.
C12_UnresolvedTargetsDropped ==
    /\ \A i \in 1 .. Len(lines) :
           /\ InSeq(Visible, lines[i].from)
           /\ InSeq(Visible, lines[i].to)
           /\ lines[i].connections =
                  SelectSeq(Attributed(lines[i].from),
                            LAMBDA c : findTargetModule(c.target, Visible) = lines[i].to)
           /\ \A k \in 1 .. Len(lines[i].connections) :
                  MatchesVisible(lines[i].connections[k].target)
    /\ \A r \in Resolved :
           \E i \in 1 .. Len(lines) :
               /\ lines[i].from = r[1]
               /\ lines[i].to = findTargetModule(Attributed(r[1])[r[2]].target, Visible)

\* C12 witness: the whole first tree is visible; the connection c2 of C
\* matches no visible module and is on no line, while c1 of C is on one.
C12_Witness ==
    /\ allModules = Tree1.modules
    /\ expandedModules = {<<"A">>, <<"A", "B">>}
    /\ ~MatchesVisible(<<"X", "Y">>)
    /\ \A i \in 1 .. Len(lines) : ~InSeq(lines[i].connections, Conn("c2", <<"X", "Y">>))
    /\ \E i \in 1 .. Len(lines) : InSeq(lines[i].connections, Conn("c1", <<"A", "B">>))

\* a step is an expansion toggle of a module that has children
TogglesExpansion == last'.op \in {"expand", "collapse"}

\* C13: toggling the expansion of a module T leaves unchanged the stored box
\* of every module that already has one and is neither T nor an ancestor of T.
C13_ToggleKeepsStoredBoxes ==
    [][ TogglesExpansion =>
            \A o \in DOMAIN modulePositions :
                (o # last'.module /\ o \notin Ancestors(last'.module)) =>
                    /\ o \in DOMAIN modulePositions'
                    /\ modulePositions'[o] = modulePositions[o]
      ]_vars

\* C13 witness: in the first tree C was dragged away from its grid cell and A
\* has just been expanded; C is still where the drag left it.
C13_Witness ==
    /\ allModules = Tree1.modules
    /\ last = [op |-> "expand", module |-> <<"A">>]
    /\ modulePositions[<<"C">>].x = 90
    /\ modulePositions[<<"C">>].y = 90

\* the visible children of m
VisibleChildren(m) == {c \in Range(Children(m)) : InSeq(Visible, c)}

\* the union of the stored boxes of the visible children of m, grown by the
\* padding on the left, right and bottom and by padding and title on top
GrownUnion(m) ==
    LET kids == VisibleChildren(m)
        minX == SetMin({modulePositions[c].x : c \in kids})
        minY == SetMin({modulePositions[c].y : c \in kids})
        maxX == SetMax({modulePositions[c].x + modulePositions[c].width : c \in kids})
        maxY == SetMax({modulePositions[c].y + modulePositions[c].height : c \in kids})
    IN  Box(minX - 40, minY - 60 - 40, maxX - minX + 40 + 40, maxY - minY + 60 + 40 + 40)

PressesMiddle == camLast'.op = "mousedown" /\ camLast'.accepted

ResetCamera(viewport) ==
    [x |-> viewport.width \div 4, y |-> viewport.height \div 4, zoom |-> One]

Declared(m) == IF m \in DOMAIN connections THEN connections[m] ELSE <<>>

\* the connections declared in the subtree of m, m first, children in order
RECURSIVE SubtreeConnections(_)
SubtreeConnections(m) ==
    LET kids == Children(m)
        RECURSIVE Below(_)
        Below(i) == IF i > Len(kids) THEN <<>>
                    ELSE SubtreeConnections(kids[i]) \o Below(i + 1)
    IN  Declared(m) \o Below(1)

\* the connections declared in the subtrees of the hidden children of m
RECURSIVE HiddenBelow(_, _)
HiddenBelow(m, i) ==
    LET kids == Children(m)
    IN  IF i > Len(kids) THEN <<>>
        ELSE (IF InSeq(Visible, kids[i]) THEN <<>> ELSE SubtreeConnections(kids[i]))
             \o HiddenBelow(m, i + 1)

\* C17 as stated: a visible module that declares connections and has no
\* visible children is attributed its own declared connections and no others.
C17_LeafViewUsesOwnOnly ==
    \A m \in Range(Visible) :
        (m \in DOMAIN connections /\ VisibleChildren(m) = {}) =>
            Attributed(m) = connections[m]

\* C17 amended: a visible module is attributed its own declared connections
\* when it has no visible children, followed in both cases by the connections
\* declared in the subtrees of its hidden children.
C17_OwnThenHiddenDescendants ==
    \A m \in Range(Visible) :
        Attributed(m) = (IF VisibleChildren(m) = {} THEN Declared(m) ELSE <<>>)
                        \o HiddenBelow(m, 1)

\* C17 witness: in the first tree A has just been expanded; A/B is visible,
\* declares two connections, has no visible children, and is attributed its
\* own two connections followed by the two of the hidden A/B/E.
C17_Witness ==
    /\ allModules = Tree1.modules
    /\ last = [op |-> "expand", module |-> <<"A">>]
    /\ VisibleChildren(<<"A", "B">>) = {}
    /\ Attributed(<<"A", "B">>) =
           connections[<<"A", "B">>] \o connections[<<"A", "B", "E">>]

\* the references declared in the loaded tree
DeclaredTargets ==
    UNION {{connections[d][i].target : i \in 1 .. Len(connections[d])} :
           d \in DOMAIN connections}

\* a reference that starts with '../' or './'
StartsRelative(t) == Len(t) >= 2 /\ (t[1] = ".." \/ t[1] = ".")

\* the positions in the visible list of the modules named as the final
\* component of t
NamedLike(t) == {i \in 1 .. Len(Visible) : Name(Visible[i]) = t[Len(t)]}

\* C18: an absolute reference whose exact path is visible resolves to that
\* module; any other reference, and every reference that starts with '../'
\* or './', resolves to the first module of the visible list named as its
\* final component; with no such module it resolves to nothing.
C18_TargetResolution ==
    \A t \in DeclaredTargets :
        findTargetModule(t, Visible) =
            IF ~StartsRelative(t) /\ InSeq(Visible, t) THEN t
            ELSE IF NamedLike(t) # {} THEN Visible[SetMin(NamedLike(t))]
            ELSE NoModule

\* C18 witness: in the second tree A is expanded, so A/C precedes the root C
\* in the visible list: the absolute reference C resolves to the root C, the
\* relative reference ../C to A/C, and the reference B to A/B.
C18_Witness ==
    /\ allModules = Tree2.modules
    /\ <<"A">> \in expandedModules
    /\ findTargetModule(<<"C">>, Visible) = <<"C">>
    /\ findTargetModule(<<"..", "C">>, Visible) = <<"A", "C">>
    /\ findTargetModule(<<"B">>, Visible) = <<"A", "B">>

\* C19 as stated: in every reachable state the stored box of every visible
\* expanded container is at least 300 wide and 200 high.
C19_ExpandedContainerMinFootprint ==
    \A m \in Range(Visible) :
        m \in expandedModules =>
            /\ modulePositions[m].width >= minExpandedWidth
            /\ modulePositions[m].height >= minExpandedHeight

\* C20: after a module M is collapsed its stored box is 250 wide and 120
\* high and has the top-left corner it had immediately before the collapse.
C20_CollapseResetsFootprint ==
    [][ last'.op = "collapse" =>
            LET M == last'.module
            IN  /\ M \in DOMAIN modulePositions
                /\ modulePositions'[M] =
                       Box(modulePositions[M].x, modulePositions[M].y, 250, 120)
      ]_vars

\* C20 witness: in the first tree the nested container A/B has just been
\* collapsed while A stays expanded; its stored box has the default size.
C20_Witness ==
    /\ allModules = Tree1.modules
    /\ last = [op |-> "collapse", module |-> <<"A", "B">>]
    /\ <<"A">> \in expandedModules
    /\ <<"A", "B", "E">> \in DOMAIN modulePositions
    /\ modulePositions[<<"A", "B">>].width = defaultWidth
    /\ modulePositions[<<"A", "B">>].height = defaultHeight

\* the pairs the routing pass computes from the current expansion set, kept
\* when both modules have an element
RoutedPairs ==
    SelectSeq(calculateConnectionPairs(Visible),
              LAMBDA p : p.from \in DOMAIN elBox /\ p.to \in DOMAIN elBox)

\* C21: when a handler has returned, the rendered edges are exactly those
\* computed from the final expansion set and the final element boxes: one
\* line per routed pair, in order, between the boxes the two modules have now.
C21_EdgesRoutedFromFinalBoxes ==
    /\ Len(lines) = Len(RoutedPairs)
    /\ \A i \in 1 .. Len(lines) :
           /\ lines[i].from = RoutedPairs[i].from
           /\ lines[i].to = RoutedPairs[i].to
           /\ lines[i].connections = RoutedPairs[i].connections
           /\ lines[i].fromRect = elBox[lines[i].from]
           /\ lines[i].toRect = elBox[lines[i].to]

\* C21 witness: a module two levels down has just been dragged, its expanded
\* parent has been re-bounded to a box that is not the default one, and an
\* edge ends at that parent.
C21_Witness ==
    /\ last.op = "dragUpdate"
    /\ Level(last.module) = 2
    /\ ParentPath(last.module) \in expandedModules
    /\ elBox[ParentPath(last.module)].width # defaultWidth
    /\ elBox[last.module].x # gridOrigin + 2 * padding
    /\ \E i \in 1 .. Len(lines) :
           /\ lines[i].to = ParentPath(last.module)
           /\ lines[i].toRect = elBox[ParentPath(last.module)]

\* two boxes share interior points
Overlap(a, b) ==
    /\ a.x < b.x + b.width
    /\ b.x < a.x + a.width
    /\ a.y < b.y + b.height
    /\ b.y < a.y + a.height

\* the box the claim gives the root at index i (from 0) of n roots
RootGridBox(i, n) ==
    LET cols == CHOOSE c \in 1 .. n : c * c >= n /\ (c - 1) * (c - 1) < n
    IN  Box(50 + (i % cols) * 300, 50 + (i \div cols) * 170, 250, 120)

\* n root modules in name order, none of them placed yet
RootList(n) == [i \in 1 .. n |-> <<NameOrder[i]>>]

\* the first layout of a list of roots: nothing expanded, nothing stored
FirstLayout(roots) == calculateModulePositions(roots, 1, <<>>, <<>>, {}).positions

\* C22: on the first layout after a load with N root modules, the root at
\* index i (name order) gets the 250x120 box at x = 50 + (i mod cols) * 300,
\* y = 50 + floor(i / cols) * 170 with cols = ceil(sqrt(N)), and no two root
\* boxes overlap.  Stated for the loaded tree and, for every N up to six, for
\* the layout the load computes for N roots.
C22_RootGrid ==
    /\ last.op = "load" =>
           /\ \A i \in 1 .. Len(rootModules) :
                  /\ modulePositions[rootModules[i]] = RootGridBox(i - 1, Len(rootModules))
                  /\ elBox[rootModules[i]] = RootGridBox(i - 1, Len(rootModules))
           /\ \A i, j \in 1 .. Len(rootModules) :
                  i # j => ~Overlap(modulePositions[rootModules[i]],
                                    modulePositions[rootModules[j]])
           /\ \A n \in 1 .. Len(NameOrder) :
                  /\ \A i \in 1 .. n : FirstLayout(RootList(n))[i] = RootGridBox(i - 1, n)
                  /\ \A i, j \in 1 .. n :
                         i # j => ~Overlap(FirstLayout(RootList(n))[i],
                                           FirstLayout(RootList(n))[j])

\* the box the claim gives the child at index k (from 0) of n children of a
\* parent whose stored top-left corner is (px, py)
ChildGridBox(k, n, px, py) ==
    LET c == CHOOSE c \in 1 .. n : c * c >= n /\ (c - 1) * (c - 1) < n
    IN  Box(px + 40 + (k % c) * 160, py + 100 + (k \div c) * 100, 140, 80)

\* C23: when a module P is expanded and its n children become visible for the
\* first time (they have no stored box yet), the child at index k gets the
\* 140x80 box at x = P.x + 40 + (k mod c) * 160, y = P.y + 100 +
\* floor(k / c) * 100 with c = ceil(sqrt(n)), (P.x, P.y) being the stored
\* top-left corner of P before the expansion; these boxes do not overlap.
C23_ChildGrid ==
    [][ last'.op = "expand" =>
            LET P    == last'.module
                kids == Children(P)
                n    == Len(kids)
            IN  \A k \in 1 .. n :
                    kids[k] \notin DOMAIN modulePositions =>
                        /\ modulePositions'[kids[k]] =
                               ChildGridBox(k - 1, n, modulePositions[P].x,
                                            modulePositions[P].y)
                        /\ elBox'[kids[k]] = modulePositions'[kids[k]]
                        /\ \A j \in 1 .. n :
                               j # k => ~Overlap(modulePositions'[kids[k]],
                                                 modulePositions'[kids[j]])
      ]_vars

\* C23 witness: in the fourth tree A was dragged away from the grid origin
\* and then expanded; its third child opens the second row under A's new
\* corner.
C23_Witness ==
    /\ allModules = Tree4.modules
    /\ last = [op |-> "expand", module |-> <<"A">>]
    /\ modulePositions[<<"A">>].x # gridOrigin
    /\ modulePositions[<<"A", "D">>] =
           Box(modulePositions[<<"A">>].x + 40, modulePositions[<<"A">>].y + 200, 140, 80)

\* C24: in the visible list every non-root module appears after its parent,
\* so for every module a layout pass may place as a child the parent lookup
\* of calculateChildPosition finds the parent at an earlier index, whose
\* position is already computed: the fallback position is never used.
C24_ParentPlacedBeforeChild ==
    \A i \in 1 .. Len(Visible) :
        LET m == Visible[i]
        IN  /\ Level(m) > 0 => \E j \in 1 .. i - 1 : Visible[j] = ParentPath(m)
            /\ isChildOfExpandedParent(m, expandedModules) =>
                   /\ ParentIndex(m, Visible) >= 1
                   /\ ParentIndex(m, Visible) < i
            /\ m \in DOMAIN modulePositions

\* C24 witness: three levels are visible in the first tree, and the module
\* two levels down has been placed under its parent, not at the fallback
\* position.
C24_Witness ==
    /\ last.op = "expand"
    /\ Level(last.module) = 1
    /\ \E i \in 1 .. Len(Visible) :
           /\ Level(Visible[i]) = 2
           /\ modulePositions[Visible[i]].x = modulePositions[last.module].x + padding
           /\ modulePositions[Visible[i]] # Box(50, 50, childWidth, childHeight)

\* C25: the expansion set has no ghost entries: every path in it is the path
\* of a module that is visible and has at least one child, and every ancestor
\* of that module is in the set too.
C25_NoGhostExpansion ==
    \A p \in expandedModules :
        /\ p \in allModules
        /\ InSeq(Visible, p)
        /\ Children(p) # <<>>
        /\ Ancestors(p) \subseteq expandedModules

\* C25 witness: the root A has just been collapsed while its child A/B was
\* expanded below it (A/B/E has been laid out), and the set is empty again.
C25_Witness ==
    /\ last = [op |-> "collapse", module |-> <<"A">>]
    /\ <<"A", "B", "E">> \in DOMAIN modulePositions
    /\ modulePositions[<<"A", "B">>].width # childWidth
    /\ expandedModules = {}

(***************************************************************************)
(* Properties of loading (checked under SpecReload).                        *)
(***************************************************************************)
\* the number of the load whose module objects the module map holds
CurrentLoad == SetMax({0} \cup {rootObjects[i].load : i \in 1 .. Len(rootObjects)})

\* C26 as stated: in every reachable state, including after a directory tree
\* has been loaded more than once, no two modules of the visible list have
\* the same path, and every visible module is the module object registered
\* under its path in the module map (here for the root objects, which are
\* always visible).
C26_VisiblePathsUniqueAndRegistered ==
    /\ \A i, j \in 1 .. Len(Visible) : i # j => Visible[i] # Visible[j]
    /\ \A i \in 1 .. Len(rootObjects) :
           /\ rootObjects[i].path \in allModules
           /\ rootObjects[i].load = CurrentLoad

(***************************************************************************)
(* The render target (checked under SpecCamera).                            *)
(***************************************************************************)
\* C27: after every camera operation (pan move, pan end, accepted or
\* rejected zoom, setCameraState, resetView) the transform of the canvas
\* content is the serialization of the current camera, and the operation has
\* assigned the transform at most once, and only when that serialization
\* differs from the one assigned last.
C27_TransformFollowsCamera ==
    [][ /\ styleTransform' = Serialize(camera')
        /\ styleWrites' # styleWrites =>
               /\ styleWrites' = styleWrites + 1
               /\ Serialize(camera') # styleTransform
      ]_vars

\* C27 witness: a pan has moved the camera, which assigned the transform, and
\* has then ended, which called updateTransform again without assigning it.
C27_Witness ==
    /\ camLast.op = "mouseup"
    /\ camLast.accepted
    /\ ~camLast.wrote
    /\ camera # [x |-> 0, y |-> 0, zoom |-> One]
    /\ styleWrites = 2
    /\ styleTransform = Serialize(camera)

(***************************************************************************)
(* Anchors of the edges (checked under Spec).                               *)
(***************************************************************************)
\* the midpoints of the four sides of a box, in half pixels
MidLeft(b) == [x |-> 2 * b.x, y |-> 2 * b.y + b.height]

MidRight(b) == [x |-> 2 * b.x + 2 * b.width, y |-> 2 * b.y + b.height]

MidTop(b) == [x |-> 2 * b.x + b.width, y |-> 2 * b.y]

MidBottom(b) == [x |-> 2 * b.x + b.width, y |-> 2 * b.y + 2 * b.height]

\* the four corners of a box, in half pixels
Corners(b) ==
    {[x |-> 2 * b.x + i * 2 * b.width, y |-> 2 * b.y + j * 2 * b.height] :
        i \in {0, 1}, j \in {0, 1}}

\* C28: for every edge, with dx and dy the differences of the box centres of
\* target and source: when |dx| > |dy| the source anchor is the midpoint of
\* the source's right side and the target anchor the midpoint of the target's
\* left side if dx > 0, left and right swapped if dx < 0; otherwise the
\* source anchor is the midpoint of the bottom and the target anchor the
\* midpoint of the top if dy > 0, top and bottom swapped otherwise.  No anchor
\* is a corner of its box.
C28_AnchorsAreSideMidpoints ==
    \A i \in 1 .. Len(lines) :
        LET src   == elBox[lines[i].from]
            dst   == elBox[lines[i].to]
            start == [x |-> lines[i].anchors.startX, y |-> lines[i].anchors.startY]
            end   == [x |-> lines[i].anchors.endX, y |-> lines[i].anchors.endY]
            dx    == (MidTop(dst).x - MidTop(src).x)
            dy    == (MidLeft(dst).y - MidLeft(src).y)
        IN  /\ start \notin Corners(src)
            /\ end \notin Corners(dst)
            /\ (Abs(dx) > Abs(dy) /\ dx > 0) => start = MidRight(src) /\ end = MidLeft(dst)
            /\ (Abs(dx) > Abs(dy) /\ dx < 0) => start = MidLeft(src) /\ end = MidRight(dst)
            /\ (Abs(dx) <= Abs(dy) /\ dy > 0) => start = MidBottom(src) /\ end = MidTop(dst)
            /\ (Abs(dx) <= Abs(dy) /\ dy <= 0) => start = MidTop(src) /\ end = MidBottom(dst)

\* C28 witness: one edge runs to the right and another one runs upwards, out
\* of the top of its source into the bottom of its target.
C28_Witness ==
    /\ last.op = "dragUpdate"
    /\ \E i, j \in 1 .. Len(lines) :
           /\ lines[i].anchors.startX = MidRight(lines[i].fromRect).x
           /\ lines[i].anchors.endX = MidLeft(lines[i].toRect).x
           /\ lines[j].anchors.startY = MidTop(lines[j].fromRect).y
           /\ lines[j].anchors.endY = MidBottom(lines[j].toRect).y
           /\ lines[j].from # lines[j].to

(***************************************************************************)
(* Dragging and the stored size (checked under Spec).                       *)
(***************************************************************************)
\* C29 as stated: a drag update of module M changes only the position of M's
\* stored box: the stored width and height of M after the update are those
\* before it.
C29_DragUpdateKeepsSize ==
    [][ last'.op = "dragUpdate" =>
            LET M == last'.module
            IN  M \in DOMAIN modulePositions =>
                    /\ modulePositions'[M].width = modulePositions[M].width
                    /\ modulePositions'[M].height = modulePositions[M].height
      ]_vars

(***************************************************************************)
(* The connection count shown for a module (checked under Spec).            *)
(***************************************************************************)
\* C30 as stated: the connection count reported for a module is the number
\* of connections declared in its whole subtree, its own plus those of all
\* its descendants.
C30_CountIsSubtreeTotal ==
    \A m \in DOMAIN elCount : elCount[m] = Len(SubtreeConnections(m))

(***************************************************************************)
(* Line thickness                                                           *)
(***************************************************************************)
\* the thickness the claim gives an edge of n connections
ClaimedThickness(n) == IF 2 * n > 8 THEN 8 ELSE IF 2 * n < 2 THEN 2 ELSE 2 * n

\* C31: the rendered thickness of an edge that aggregates n >= 1 connections
\* is min(8, max(2, 2n)); it lies in [2, 8] and an edge of more connections
\* is never thinner than an edge of fewer.
C31_ThicknessClampedMonotone ==
    /\ \A i \in 1 .. Len(lines) :
           /\ Len(lines[i].connections) >= 1
           /\ lines[i].thickness = ClaimedThickness(Len(lines[i].connections))
           /\ lines[i].thickness \in 2 .. 8
    /\ \A i, j \in 1 .. Len(lines) :
           Len(lines[i].connections) <= Len(lines[j].connections)
               => lines[i].thickness <= lines[j].thickness

\* C31 witness: a rendered edge of five connections, where the upper clamp
\* applies (2n is 10, the line is 8 pixels thick)
C31_Witness ==
    \E i \in 1 .. Len(lines) :
        /\ Len(lines[i].connections) = 5
        /\ lines[i].thickness = 8

(***************************************************************************)
(* Events during a drag                                                     *)
(***************************************************************************)
\* C32: while a drag is in progress the dragged module is visible, whatever
\* other events are handled during the drag, and a drag update never writes
\* the stored box of a module that is not visible.
C32_DraggedModuleStaysVisible ==
    /\ dragState.isDragging => InSeq(Visible, dragState.draggedModule)
    /\ last.op = "dragUpdate" => InSeq(Visible, last.module)

(***************************************************************************)
(* Zoom during a pan (checked under SpecCamera)                             *)
(***************************************************************************)
\* the camera when the pan in progress started
PanStartCam == [x |-> panStartCamera.x, y |-> panStartCamera.y, zoom |-> panStartZoom]

\* the world point that was under the pointer when the pan started, for a
\* canvas container at r
PanStartWorld(r) ==
    screenToWorld(PanStartCam, FSub(panStartPos.x, r.left), FSub(panStartPos.y, r.top))

\* where the canvas shows that world point now, relative to the pointer at
\* client position e: zero on both axes when the point is under the pointer
PanDrift(r, e) ==
    LET w    == PanStartWorld(r)
        back == worldToScreen(camera, w.x, w.y)
    IN  [x |-> back.x - FSub(e.x, r.left), y |-> back.y - FSub(e.y, r.top)]

\* rounding allowance of the two conversions: units in the last place of the
\* largest coordinate involved
PanTol(r, e) ==
    2 * Ulp(Max(Max(Abs(panStartPos.x), Abs(panStartPos.y)),
                Max(Max(Abs(e.x), Abs(e.y)),
                    Max(Abs(camera.x), Abs(camera.y)))))

\* C33: after every pointer move of a pan the world point that was under the
\* pointer when the pan started is under the pointer again (up to the
\* rounding of the conversions), also when a wheel zoom was handled between
\* the press and the move.
C33_PanKeepsPointUnderPointer ==
    (camLast.op = "mousemove" /\ camLast.accepted) =>
        \A r \in ContainerRects :
            /\ Abs(PanDrift(r, camLast.mouse).x) <= PanTol(r, camLast.mouse)
            /\ Abs(PanDrift(r, camLast.mouse).y) <= PanTol(r, camLast.mouse)

(***************************************************************************)
(* Events during a load (checked under SpecLoading)                         *)
(***************************************************************************)
\* C34: when a loadFileSystem call completes, the expansion set and the box
\* map contain only paths of modules of the newly loaded tree, whatever
\* events were handled while the load was suspended.
C34_LoadLeavesOnlyNewPaths ==
    last.op = "load" =>
        /\ expandedModules \subseteq fileSystem.modules
        /\ DOMAIN modulePositions \subseteq fileSystem.modules

\* C35: a drag update that arrives right after the press, with the pointer
\* still at the position of the press and the camera unchanged, leaves the
\* stored position of the dragged module as it was, wherever the canvas
\* container is in the window: starting a drag does not make the module jump.
C35_PressPositionKeepsBox ==
    [][ ( /\ last.op = "dragStart"
          /\ updateModuleDrag(dragState.startPos, containerBounds) ) =>
            LET m == dragState.draggedModule
            IN  /\ modulePositions'[m].x = modulePositions[m].x
                /\ modulePositions'[m].y = modulePositions[m].y
      ]_vars

\* toggleModuleExpansion on a module that is expanded in the expansion set
\* exp, over the stored and rendered boxes v: the boxes it leaves
CollapseOf(module, exp, v) ==
    LET exp1 == collapseModule(module, exp)
        v1 == renderSystem(exp1, v)
        v2 == recalculateParentBounds(module, exp1, v1)
    IN  updateParentContainer(module, exp1, v2)

\* C36: when a collapsed module has just been expanded, collapsing it again
\* right away gives every path that had a stored box before the expansion
\* (the module itself, its ancestors, every other module) that same box back.
C36_ExpandCollapseRestores ==
    [][ last'.op = "expand" =>
            LET again == CollapseOf(last'.module, expandedModules',
                                    [store |-> modulePositions', el |-> elBox'])
            IN  \A p \in DOMAIN modulePositions :
                    again.store[p] = modulePositions[p]
      ]_vars

\* C37: every visible module that is not expanded has a stored box of a
\* collapsed size, the default footprint 250x120 or the child size 140x80;
\* none keeps the size it had as an expanded container.
C37_CollapsedSizes ==
    \A i \in 1 .. Len(Visible) :
        LET m == Visible[i]
        IN  (m \notin expandedModules /\ m \in DOMAIN modulePositions) =>
                \/ /\ modulePositions[m].width = defaultWidth
                   /\ modulePositions[m].height = defaultHeight
                \/ /\ modulePositions[m].width = childWidth
                   /\ modulePositions[m].height = childHeight

\* C38: expanding a module leaves that module's own stored top-left corner
\* where it was, also when the module was dragged while collapsed after its
\* children had been laid out once.
C38_ExpandKeepsCorner ==
    [][ last'.op = "expand" =>
            LET m == last'.module
            IN  /\ modulePositions'[m].x = modulePositions[m].x
                /\ modulePositions'[m].y = modulePositions[m].y
      ]_vars

\* C39: no connection line runs from a visible module to that same module,
\* in any expansion state, also when a collapsed container shows the
\* connection of a hidden descendant whose target is the container itself.
C39_NoSelfEdge ==
    \A i \in 1 .. Len(lines) : lines[i].from # lines[i].to

\* C40: the drag state is consistent.  isDragging holds exactly when a
\* dragged module is recorded, and an idle drag state is the fully reset
\* one; a drag (of a module not dragged before the step) begins only in a
\* right-button press on a module; a drag ends only in a right-button
\* release over the canvas, in the pointer leaving the canvas or in Escape;
\* a pointer move while no drag is in progress changes no stored box.
C40_DragStateConsistent ==
    [][ /\ dragState'.isDragging <=> dragState'.draggedModule # NoModule
        /\ ~dragState'.isDragging => dragState' = IdleDrag
        /\ ( /\ dragState'.isDragging
             /\ ~dragState.isDragging \/ dragState'.draggedModule # dragState.draggedModule )
               => last'.op = "dragStart"
        /\ (dragState.isDragging /\ ~dragState'.isDragging)
               => last'.op \in {"dragEnd", "mouseleave", "cancelDrag"}
        /\ last'.op \in {"dragEnd", "mouseleave", "cancelDrag"} => ~dragState'.isDragging
        /\ last'.op = "mousemove" =>
               /\ ~dragState.isDragging
               /\ modulePositions' = modulePositions
               /\ elBox' = elBox
      ]_vars

\* C40 witness: a drag that moved the root A from x = 50 to x = 90 has
\* ended and a pointer move has arrived after it: the drag state is the
\* reset one and A is where the drag left it.
C40_Witness ==
    /\ last.op = "mousemove"
    /\ dragState = IdleDrag
    /\ dragOrigin # NoBox
    /\ <<"A">> \in DOMAIN modulePositions
    /\ modulePositions[<<"A">>].x = 90
    /\ dragOrigin.x = 50

====
